---- MODULE Spec2Model ----
(***************************************************************************)
(* string-schema: the string-schema parser and its validator               *)
(* (string_schema/parsing/string_parser.py), the field model the parser    *)
(* builds (core/fields.py) and the converter of a JSON Schema back to a    *)
(* schema string (integrations/reverse.py).                                *)
(*                                                                         *)
(* A schema string is a TLA+ string; Python's str methods and the regular  *)
(* expressions of the parser are operators over it, computed character by  *)
(* character.  A Python dict is a function on its keys (a record), except  *)
(* where the code reads the insertion order (`fields`, `properties`),      *)
(* which is a sequence of [name, ...] entries.  A Python exception is the  *)
(* value Raise(...) handed up through every caller.                        *)
(*                                                                         *)
(* A value a function computes once and reads several times (a local       *)
(* variable of the code) is a parameter of a second operator, named after  *)
(* the function, that holds the rest of its body.                          *)
(***************************************************************************)
EXTENDS Integers, Sequences, FiniteSets, TLC

VARIABLES schema_str, shape, pc, result, field_node, frame, frames

vars == <<schema_str, shape, pc, result, field_node, frame, frames>>

(***************************************************************************)
(* Python str                                                              *)
(***************************************************************************)

\* s[i] (1-based), "" outside the string
Ch(s, i) == IF 1 <= i /\ i <= Len(s) THEN SubSeq(s, i, i) ELSE ""

\* s[i:] with i 1-based
From(s, i) == SubSeq(s, i, Len(s))

\* str.strip() removes these (the ASCII whitespace a schema string holds)
Whitespace == {" ", "\n", "\t", "\r"}

Min(S) == CHOOSE x \in S : \A y \in S : x <= y

Max(S) == CHOOSE x \in S : \A y \in S : x >= y

MinOrZero(S) == IF S = {} THEN 0 ELSE Min(S)

\* s from the first to the last index of keep, "" when keep is empty
Between(s, keep) == IF keep = {} THEN "" ELSE SubSeq(s, Min(keep), Max(keep))

\* str.strip(): from the first to the last character that is not whitespace
strip(s) == Between(s, {i \in 1..Len(s) : Ch(s, i) \notin Whitespace})

UpTo(s, keep) == IF keep = {} THEN "" ELSE SubSeq(s, 1, Max(keep))

\* str.rstrip(',')
rstrip_comma(s) == UpTo(s, {i \in 1..Len(s) : Ch(s, i) # ","})

startswith(s, p) == Len(p) <= Len(s) /\ SubSeq(s, 1, Len(p)) = p

endswith(s, p) == Len(p) <= Len(s) /\ SubSeq(s, Len(s) - Len(p) + 1, Len(s)) = p

\* the indices >= i where sub starts in s
Occurrences(s, sub, i) ==
    {j \in i..(Len(s) - Len(sub) + 1) : SubSeq(s, j, j + Len(sub) - 1) = sub}

\* str.find(sub, i) + 1: the first index >= i where sub starts, 0 when none
FindFrom(s, sub, i) == MinOrZero(Occurrences(s, sub, i))

Find(s, sub) == FindFrom(s, sub, 1)

\* sub in s
Contains(s, sub) == Occurrences(s, sub, 1) # {}

\* the k-th smallest element of the set `at` of indices; `before` for k = 0
\* and `after` past the last
Nth(at, k, before, after) ==
    IF k = 0 THEN before
    ELSE IF k > Cardinality(at) THEN after
    ELSE CHOOSE j \in at : Cardinality({q \in at : q < j}) = k - 1

\* the pieces of s between the separators of width w that start at the indices `at`
Pieces(s, at, w) ==
    [k \in 1..(Cardinality(at) + 1) |->
        SubSeq(s, Nth(at, k - 1, 1 - w, Len(s) + 1) + w,
                  Nth(at, k, 1 - w, Len(s) + 1) - 1)]

\* str.split(sep): the pieces between the occurrences of sep, left to right
\* (sep is one character, or ' #': its occurrences never overlap)
split(s, sep) == Pieces(s, Occurrences(s, sep, 1), Len(sep))

Split1At(s, i, w) == IF i = 0 THEN <<s>> ELSE <<SubSeq(s, 1, i - 1), From(s, i + w)>>

\* str.split(sep, 1)
split1(s, sep) == Split1At(s, Find(s, sep), Len(sep))

\* [x.strip() for x in seq]
StripAll(seq) == [i \in 1..Len(seq) |-> strip(seq[i])]

Upper == <<"A","B","C","D","E","F","G","H","I","J","K","L","M",
           "N","O","P","Q","R","S","T","U","V","W","X","Y","Z">>
Lower == <<"a","b","c","d","e","f","g","h","i","j","k","l","m",
           "n","o","p","q","r","s","t","u","v","w","x","y","z">>

LowerCh(c) ==
    IF \E i \in 1..26 : Upper[i] = c
    THEN Lower[CHOOSE i \in 1..26 : Upper[i] = c]
    ELSE c

\* str.lower(), character by character
RECURSIVE lower(_)
lower(s) ==
    IF Len(s) <= 1 THEN LowerCh(s)
    ELSE lower(SubSeq(s, 1, Len(s) \div 2)) \o lower(From(s, Len(s) \div 2 + 1))

Digits == <<"0","1","2","3","4","5","6","7","8","9">>

IsDigit(c) == \E i \in 1..10 : Digits[i] = c

DigitVal(c) == (CHOOSE i \in 1..10 : Digits[i] = c) - 1

\* the regular expression class \w
IsWordCh(c) ==
    \/ \E i \in 1..10 : Digits[i] = c
    \/ c = "_"
    \/ \E i \in 1..26 : Upper[i] = c \/ Lower[i] = c

AllWord(s) == \A i \in 1..Len(s) : IsWordCh(Ch(s, i))

(***************************************************************************)
(* Python numbers.  An int is [k |-> "int", n |-> value]; a float is the   *)
(* rational it denotes in lowest terms, [k |-> "float", num, den], so that *)
(* float("1.50") = float("1.5") and 1.0 is not the int 1.  Literals are    *)
(* short: no value leaves the range of a double or of the checker's ints.  *)
(* A conversion gives Ok(value), or Raise("ValueError").                   *)
(***************************************************************************)

\* a call's outcome: its return value, or the exception it raised
Ok(v) == [ok |-> TRUE, val |-> v]

Raise(exc) == [ok |-> FALSE, exc |-> exc]

IntV(n) == [k |-> "int", n |-> n]

RECURSIVE Gcd(_, _)
Gcd(a, b) == IF b = 0 THEN a ELSE Gcd(b, a % b)

Abs(n) == IF n < 0 THEN -n ELSE n

RECURSIVE Pow10(_)
Pow10(e) == IF e = 0 THEN 1 ELSE 10 * Pow10(e - 1)

Reduced(num, den, g) == [k |-> "float", num |-> num \div g, den |-> den \div g]

FloatV(num, den) == Reduced(num, den, Gcd(Abs(num), den))

\* a digit group of a numeric literal: digits, single underscores between them
IsDigitRun(s) ==
    /\ s # ""
    /\ IsDigit(Ch(s, 1))
    /\ IsDigit(Ch(s, Len(s)))
    /\ \A i \in 1..Len(s) : IsDigit(Ch(s, i)) \/ Ch(s, i) = "_"
    /\ \A i \in 1..(Len(s) - 1) : SubSeq(s, i, i + 1) # "__"

\* the value of a digit group (empty: 0)
RECURSIVE DigitsVal(_, _)
DigitsVal(s, i) ==
    IF i = 0 THEN 0
    ELSE IF Ch(s, i) = "_" THEN DigitsVal(s, i - 1)
    ELSE DigitsVal(s, i - 1) * 10 + DigitVal(Ch(s, i))

CountDigits(s) == Cardinality({i \in 1..Len(s) : Ch(s, i) # "_"})

Unsigned(s) == IF Ch(s, 1) \in {"+", "-"} THEN From(s, 2) ELSE s

SignOf(s) == IF Ch(s, 1) = "-" THEN -1 ELSE 1

IntOfStripped(t, digits) ==
    IF IsDigitRun(digits)
    THEN Ok(IntV(SignOf(t) * DigitsVal(digits, Len(digits))))
    ELSE Raise("ValueError")

IntOf(t) == IntOfStripped(t, Unsigned(t))

\* int(text)
int(text) == IntOf(strip(text))

\* mantissa ip.fp (d = 0: no point) times ten to the exponent ex
FloatOfParts(sign, ip, fp, ex) ==
    IF ex >= CountDigits(fp)
    THEN FloatV(sign * DigitsVal(ip \o fp, Len(ip \o fp)) * Pow10(ex - CountDigits(fp)), 1)
    ELSE FloatV(sign * DigitsVal(ip \o fp, Len(ip \o fp)), Pow10(CountDigits(fp) - ex))

MantissaOk(ip, fp, pointed) ==
    IF ~pointed THEN IsDigitRun(ip)
    ELSE /\ ip = "" \/ IsDigitRun(ip)
         /\ fp = "" \/ IsDigitRun(fp)
         /\ ip # "" \/ fp # ""

FloatOfMantissa(sign, ip, fp, pointed, hasExp, x) ==
    IF MantissaOk(ip, fp, pointed) /\ (hasExp => IsDigitRun(Unsigned(x)))
    THEN Ok(FloatOfParts(sign, ip, fp,
                         IF hasExp
                         THEN SignOf(x) * DigitsVal(Unsigned(x), Len(Unsigned(x)))
                         ELSE 0))
    ELSE Raise("ValueError")

\* m is the mantissa, d the index of its point (0: none), x the exponent's text
FloatOfSplit(sign, m, d, hasExp, x) ==
    FloatOfMantissa(sign,
                    IF d = 0 THEN m ELSE SubSeq(m, 1, d - 1),
                    IF d = 0 THEN "" ELSE From(m, d + 1),
                    d # 0, hasExp, x)

\* u is the literal without its sign, e the index of its exponent mark (0: none)
FloatOfUnsigned(sign, u, e) ==
    IF e = 0 THEN FloatOfSplit(sign, u, Find(u, "."), FALSE, "")
    ELSE FloatOfSplit(sign, SubSeq(u, 1, e - 1), Find(SubSeq(u, 1, e - 1), "."),
                      TRUE, From(u, e + 1))

FloatOf(t) == FloatOfUnsigned(SignOf(t), Unsigned(t), Find(lower(Unsigned(t)), "e"))

\* float(text), for decimal literals (no inf, nan)
float(text) == FloatOf(strip(text))

\* float(text) if '.' in text else int(text)
number(text) == IF Contains(text, ".") THEN float(text) ELSE int(text)

(***************************************************************************)
(* Python values and dicts                                                 *)
(***************************************************************************)

NoneV == [k |-> "none"]

StrV(s) == [k |-> "str", s |-> s]

ListV(seq) == [k |-> "list", v |-> seq]

\* bool(v)
Truthy(v) ==
    CASE v.k = "none" -> FALSE
      [] v.k = "str" -> v.s # ""
      [] v.k = "int" -> v.n # 0
      [] v.k = "float" -> v.num # 0
      [] v.k = "list" -> Len(v.v) > 0

\* {}
EmptyDict == [y \in {} |-> NoneV]

\* d[key] = v
Put(d, key, v) == [y \in DOMAIN d \cup {key} |-> IF y = key THEN v ELSE d[y]]

\* a near miss of PutOk: a failed conversion discards what was stored before
PutOkClearing(d, key, conv) == IF conv.ok THEN Put(d, key, conv.val) ELSE EmptyDict

\* try: d[key] = <conversion>  except ValueError: pass
PutOk(d, key, conv) == IF conv.ok THEN Put(d, key, conv.val) ELSE d

(***************************************************************************)
(* Type/constraint lexemes                                                 *)
(***************************************************************************)

type_mapping ==
    [str |-> "string", string |-> "string", text |-> "string",
     int |-> "integer", integer |-> "integer",
     num |-> "number", number |-> "number", float |-> "number",
     double |-> "number", decimal |-> "number",
     bool |-> "boolean", boolean |-> "boolean",
     email |-> "string", url |-> "string", uri |-> "string",
     datetime |-> "string", date |-> "string", uuid |-> "string",
     phone |-> "string", tel |-> "string", null |-> "null"]

\* key in node
Has(node, key) == key \in DOMAIN node

\* dict.get(key, default) on a dict of strings
Get(d, key, default) == IF key \in DOMAIN d THEN d[key] ELSE default

_normalize_type_name(type_name) == Get(type_mapping, lower(type_name), "string")

simple_types ==
    {"string", "str", "text", "int", "integer", "number", "float", "decimal",
     "bool", "boolean", "email", "url", "uri", "datetime", "date", "uuid", "phone"}

_is_simple_type(type_str) == lower(strip(type_str)) \in simple_types

\* re.match(r'^<prefix>([^)]+)\)$', s) for a prefix whose '(' is at index open:
\* the first ')' after it is the last character, one character at least
\* before it
ParenTailAt(s, open) ==
    /\ open > 0
    /\ FindFrom(s, ")", open + 1) = Len(s)
    /\ Len(s) >= open + 2

\* the group ([^)]+) of such a match
ParenGroup(s, open) == SubSeq(s, open + 1, Len(s) - 1)

\* the index of the '(' of ^(?:k1|k2|...)\( in s, 0 when no keyword matches
\* (no keyword is a prefix of another)
WrapperOpen(s, keywords) ==
    MinOrZero({Len(w) + 1 : w \in {v \in keywords : startswith(s, v \o "(")}})

\* a near miss of EnumValuesAt: the values kept as written, blanks included
EnumValuesUntrimmed(enum_def, open) ==
    IF ~ParenTailAt(enum_def, open) THEN <<>>
    ELSE split(ParenGroup(enum_def, open), ",")

EnumValuesAt(enum_def, open) ==
    IF ~ParenTailAt(enum_def, open) THEN <<>>
    ELSE StripAll(split(ParenGroup(enum_def, open), ","))

_parse_enum_values(enum_def) ==
    EnumValuesAt(enum_def, WrapperOpen(enum_def, {"enum", "choice", "select"}))

ArrayConstraintKV(constraints, key, value) ==
    IF key \in {"min", "max"} THEN PutOk(constraints, key, int(value))
    ELSE Put(constraints, key, StrV(value))

ArrayConstraintSplit(constraints, kv) ==
    ArrayConstraintKV(constraints, strip(kv[1]), strip(kv[2]))

\* one `key=value` part of an array constraint list, applied to constraints
ArrayConstraintPart(constraints, part) ==
    IF ~Contains(part, "=") THEN constraints
    ELSE ArrayConstraintSplit(constraints, split1(part, "="))

RECURSIVE ArrayConstraintLoop(_, _, _)
ArrayConstraintLoop(constraints, parts, i) ==
    IF i > Len(parts) THEN constraints
    ELSE ArrayConstraintLoop(ArrayConstraintPart(constraints, parts[i]), parts, i + 1)

_parse_array_constraints(constraint_str) ==
    ArrayConstraintLoop(EmptyDict, StripAll(split(constraint_str, ",")), 1)

ArrayTypeOfParts(parts) ==
    [array_type |-> _normalize_type_name(parts[1]),
     constraints |-> ArrayConstraintLoop(EmptyDict, parts, 2)]

ArrayTypeAt(array_def, open) ==
    IF ~ParenTailAt(array_def, open)
    THEN [array_type |-> "string", constraints |-> EmptyDict]
    ELSE ArrayTypeOfParts(StripAll(split(ParenGroup(array_def, open), ",")))

_parse_array_type_definition(array_def) ==
    ArrayTypeAt(array_def, WrapperOpen(array_def, {"array", "list"}))

string_family == {"string", "str", "text"}

\* a near miss of PositionalOf: the pair stored as a value range whatever the type
PositionalAsValues(base_type, min_val, max_val) ==
    IF ~(min_val.ok /\ max_val.ok) THEN EmptyDict
    ELSE Put(Put(EmptyDict, "min_val", min_val.val), "max_val", max_val.val)

\* the positional form, both conversions done: nothing is stored unless both
\* succeeded
PositionalOf(base_type, min_val, max_val) ==
    IF ~(min_val.ok /\ max_val.ok) THEN EmptyDict
    ELSE IF base_type \in string_family
    THEN Put(Put(EmptyDict, "min_length", min_val.val), "max_length", max_val.val)
    ELSE Put(Put(EmptyDict, "min_val", min_val.val), "max_val", max_val.val)

\* the positional form: exactly two parts, neither holding '='
PositionalConstraints(base_type, parts) ==
    PositionalOf(base_type, number(parts[1]), number(parts[2]))

\* a near miss of NamedConstraintKV: min/max stored as a value range whatever the
\* type
NamedAsValues(base_type, constraints, key, value) ==
    IF key \in {"min", "max"} THEN PutOk(constraints, key \o "_val", number(value))
    ELSE Put(constraints, key, StrV(value))

NamedConstraintKV(base_type, constraints, key, value) ==
    IF key \in {"min", "max"}
    THEN IF base_type \in string_family
         THEN PutOk(constraints, key \o "_length", int(value))
         ELSE PutOk(constraints, key \o "_val", number(value))
    ELSE Put(constraints, key, StrV(value))

NamedConstraintSplit(base_type, constraints, kv) ==
    NamedConstraintKV(base_type, constraints, strip(kv[1]), strip(kv[2]))

\* one part of the named form, applied to constraints
NamedConstraintPart(base_type, constraints, part) ==
    IF Contains(part, "=")
    THEN NamedConstraintSplit(base_type, constraints, split1(part, "="))
    ELSE IF base_type \in string_family
         THEN PutOk(constraints, "max_length", int(part))
         ELSE PutOk(constraints, "max_val", number(part))

RECURSIVE NamedConstraintLoop(_, _, _, _)
NamedConstraintLoop(base_type, constraints, parts, i) ==
    IF i > Len(parts) THEN constraints
    ELSE NamedConstraintLoop(base_type,
                             NamedConstraintPart(base_type, constraints, parts[i]),
                             parts, i + 1)

TypeConstraints(base_type, constraint_parts) ==
    IF Len(constraint_parts) = 2 /\ \A i \in 1..2 : ~Contains(constraint_parts[i], "=")
    THEN PositionalConstraints(base_type, constraint_parts)
    ELSE NamedConstraintLoop(base_type, EmptyDict, constraint_parts, 1)

\* re.match(r'^(\w+)\(([^)]+)\)$', type_def), open the index of the first '('
TypeDefMatch(type_def, open) ==
    /\ open >= 2
    /\ AllWord(SubSeq(type_def, 1, open - 1))
    /\ ParenTailAt(type_def, open)

TypeDefinitionAt(type_def, open) ==
    IF TypeDefMatch(type_def, open)
    THEN [field_type |-> _normalize_type_name(SubSeq(type_def, 1, open - 1)),
          constraints |-> TypeConstraints(SubSeq(type_def, 1, open - 1),
                              StripAll(split(ParenGroup(type_def, open), ",")))]
    ELSE [field_type |-> _normalize_type_name(type_def), constraints |-> EmptyDict]

_parse_type_definition(type_def) == TypeDefinitionAt(type_def, Find(type_def, "("))

(***************************************************************************)
(* Field model                                                             *)
(***************************************************************************)

\* the keyword parameters of SimpleField.__init__ besides field_type and required
SimpleFieldKeywords ==
    {"description", "default", "min_val", "max_val", "min_length", "max_length",
     "choices", "min_items", "max_items", "format_hint", "union_types"}

Kw(kwargs, key, default) == IF key \in DOMAIN kwargs THEN kwargs[key] ELSE default

\* union_types or []
OrEmptyList(v) == IF Truthy(v) THEN v ELSE ListV(<<>>)

\* SimpleField(field_type=field_type, required=required, **kwargs): a keyword
\* the signature does not have, or one given twice, is a TypeError
SimpleField(field_type, required, kwargs) ==
    IF \E key \in DOMAIN kwargs : key \notin SimpleFieldKeywords
    THEN Raise("TypeError")
    ELSE Ok([class |-> "SimpleField",
             field_type |-> field_type,
             description |-> Kw(kwargs, "description", StrV("")),
             required |-> required,
             default |-> Kw(kwargs, "default", NoneV),
             min_val |-> Kw(kwargs, "min_val", NoneV),
             max_val |-> Kw(kwargs, "max_val", NoneV),
             min_length |-> Kw(kwargs, "min_length", NoneV),
             max_length |-> Kw(kwargs, "max_length", NoneV),
             choices |-> Kw(kwargs, "choices", NoneV),
             min_items |-> Kw(kwargs, "min_items", NoneV),
             max_items |-> Kw(kwargs, "max_items", NoneV),
             format_hint |-> Kw(kwargs, "format_hint", NoneV),
             union_types |-> OrEmptyList(Kw(kwargs, "union_types", NoneV))])

isinstance_SimpleField(field_def) == "class" \in DOMAIN field_def

(***************************************************************************)
(* Tokenizer/splitter and comment normalisation                            *)
(***************************************************************************)

\* how many of s[1..i] are the character c
Count(s, c, i) == Cardinality({j \in 1..i : Ch(s, j) = c})

\* the value of a depth counter of the loop when it reads s[i]
DepthAt(s, open, close, i) == Count(s, open, i - 1) - Count(s, close, i - 1)

\* the commas at which the loop closes current_part
SplitPoints(s) ==
    {i \in 1..Len(s) :
        /\ Ch(s, i) = ","
        /\ DepthAt(s, "[", "]", i) = 0
        /\ DepthAt(s, "{", "}", i) = 0
        /\ DepthAt(s, "(", ")", i) = 0}

NonEmpty(part) == part # ""

\* the loop over the characters, as what it appends: current_part.strip() at every
\* comma read with the three counters at zero and at the end, when not empty
_split_field_definitions_with_nesting(schema_str_) ==
    SelectSeq(StripAll(Pieces(schema_str_, SplitPoints(schema_str_), 1)), NonEmpty)

QuoteChars == {"'", "\""}

IsTripleQuote(s) == Len(s) = 3 /\ \A i \in 1..3 : Ch(s, i) \in QuoteChars

\* s[first-1:] without a trailing run of three quote characters
StripTrailingQuotes(s, first) ==
    IF Len(s) - 2 >= first /\ IsTripleQuote(SubSeq(s, Len(s) - 2, Len(s)))
    THEN SubSeq(s, first, Len(s) - 3)
    ELSE SubSeq(s, first, Len(s))

\* re.sub(r'^[\'\"]{3}|[\'\"]{3}$', '', s): a leading and a trailing run of three
\* quote characters are removed; the two matches do not overlap
StripTripleQuotes(s) ==
    StripTrailingQuotes(s, IF Len(s) >= 3 /\ IsTripleQuote(SubSeq(s, 1, 3)) THEN 4 ELSE 1)

\* one line of the schema without its inline comment
StripInlineComment(line) ==
    IF Contains(line, " #") THEN strip(split(line, " #")[1])
    ELSE IF Contains(line, "#") /\ ~startswith(line, "#") THEN strip(split(line, "#")[1])
    ELSE line

NormalizeLine(normalized_parts, line) ==
    IF line = "" \/ startswith(line, "#") THEN normalized_parts
    ELSE Append(normalized_parts, StripInlineComment(line))

RECURSIVE NormalizeLines(_, _, _)
NormalizeLines(lines, i, normalized_parts) ==
    IF i > Len(lines) THEN normalized_parts
    ELSE NormalizeLines(lines, i + 1, NormalizeLine(normalized_parts, strip(lines[i])))

\* ', '.join(part.rstrip(',') for part in parts[i:])
RECURSIVE JoinParts(_, _)
JoinParts(parts, i) ==
    IF i > Len(parts) THEN ""
    ELSE IF i = Len(parts) THEN rstrip_comma(parts[i])
    ELSE rstrip_comma(parts[i]) \o ", " \o JoinParts(parts, i + 1)

_normalize_string_schema(schema_str_) ==
    JoinParts(NormalizeLines(split(StripTripleQuotes(strip(schema_str_)), "\n"),
                             1, <<>>), 1)

(***************************************************************************)
(* Structure parser.  A parsed object structure is                         *)
(* [type |-> "object", fields |-> the sequence of [name, def]]; an array   *)
(* structure is [type |-> "array", items, constraints].                    *)
(***************************************************************************)

\* fields[field_name] = field_def on an insertion-ordered dict
DictSet(fields, field_name, field_def) ==
    IF \E i \in 1..Len(fields) : fields[i].name = field_name
    THEN [i \in 1..Len(fields) |->
            IF fields[i].name = field_name
            THEN [name |-> field_name, def |-> field_def]
            ELSE fields[i]]
    ELSE Append(fields, [name |-> field_name, def |-> field_def])

special_types == {"email", "url", "uri", "datetime", "date", "uuid", "phone"}

\* re.match(r'^\[([^\]]+)\]\(([^)]+)\)$', s), close the index of the first ']':
\* it ends the first group and is followed by '(', whose first ')' is the last
\* character
ArrayConstraintMatch(s, close) ==
    /\ startswith(s, "[")
    /\ close >= 3
    /\ Ch(s, close + 1) = "("
    /\ ParenTailAt(s, close + 1)

\* a near miss of NormalizeAll: the union members kept as written
UnionTypesAsWritten(union_types) == union_types

\* [_normalize_type_name(t) for t in union_types]
NormalizeAll(union_types) ==
    [i \in 1..Len(union_types) |-> _normalize_type_name(union_types[i])]

RECURSIVE _parse_schema_structure(_)
RECURSIVE _parse_object_fields(_)
RECURSIVE _parse_single_field_with_nesting(_)
RECURSIVE ObjectFieldsLoop(_, _, _)

\* {"type": "object", "fields": fields}, fields the outcome of _parse_object_fields
ObjectOf(fields) ==
    IF fields.ok THEN Ok([type |-> "object", fields |-> fields.val]) ELSE fields

\* {"type": "array", "items": {"type": "object", "fields": fields}, "constraints": ...}
ArrayOfObject(fields, array_constraints) ==
    IF fields.ok
    THEN Ok([type |-> "array",
             items |-> [type |-> "object", fields |-> fields.val],
             constraints |-> array_constraints])
    ELSE fields

ArrayOfSimple(original_type, array_constraints) ==
    Ok([type |-> "array",
        items |-> [type |-> "simple",
                   simple_type |-> _normalize_type_name(original_type),
                   original_type |-> original_type],
        constraints |-> array_constraints])

\* a near miss of ArrayStructure: the item token kept in the case it was written
ArrayStructureAsWritten(inner_content, array_constraints) ==
    IF startswith(inner_content, "{") /\ endswith(inner_content, "}")
    THEN ArrayOfObject(
             _parse_object_fields(strip(SubSeq(inner_content, 2, Len(inner_content) - 1))),
             array_constraints)
    ELSE IF _is_simple_type(inner_content)
    THEN ArrayOfSimple(strip(inner_content), array_constraints)
    ELSE ArrayOfObject(_parse_object_fields(inner_content), array_constraints)

\* the array branch once inner_content and array_constraints are set
ArrayStructure(inner_content, array_constraints) ==
    IF startswith(inner_content, "{") /\ endswith(inner_content, "}")
    THEN ArrayOfObject(
             _parse_object_fields(strip(SubSeq(inner_content, 2, Len(inner_content) - 1))),
             array_constraints)
    ELSE IF _is_simple_type(inner_content)
    THEN ArrayOfSimple(lower(strip(inner_content)), array_constraints)
    ELSE ArrayOfObject(_parse_object_fields(inner_content), array_constraints)

\* a near miss of ArrayBranch: the malformed array rejected
ArrayBranchRejecting(s, close) ==
    IF ArrayConstraintMatch(s, close)
    THEN ArrayStructure(strip(SubSeq(s, 2, close - 1)),
                        _parse_array_constraints(strip(ParenGroup(s, close + 1))))
    ELSE IF endswith(s, "]")
    THEN ArrayStructure(strip(SubSeq(s, 2, Len(s) - 1)), EmptyDict)
    ELSE Raise("ValueError")

\* the array branch: constraint_match, then `elif schema_str.endswith(']')`, then
\* the fallback
ArrayBranch(s, close) ==
    IF ArrayConstraintMatch(s, close)
    THEN ArrayStructure(strip(SubSeq(s, 2, close - 1)),
                        _parse_array_constraints(strip(ParenGroup(s, close + 1))))
    ELSE IF endswith(s, "]")
    THEN ArrayStructure(strip(SubSeq(s, 2, Len(s) - 1)), EmptyDict)
    ELSE Ok([type |-> "object", fields |-> <<>>])

StructureOf(s) ==
    IF startswith(s, "{") /\ endswith(s, "}")
    THEN ObjectOf(_parse_object_fields(strip(SubSeq(s, 2, Len(s) - 1))))
    ELSE IF startswith(s, "[")
    THEN ArrayBranch(s, Find(s, "]"))
    ELSE ObjectOf(_parse_object_fields(s))

_parse_schema_structure(schema_str_) == StructureOf(strip(schema_str_))

\* the body of the loop of _parse_object_fields, the field parsed
ObjectFieldsStep(field_parts, i, fields, parsed) ==
    IF ~parsed.ok THEN parsed
    ELSE IF parsed.val.name # ""
    THEN ObjectFieldsLoop(field_parts, i + 1,
                          DictSet(fields, parsed.val.name, parsed.val.def))
    ELSE ObjectFieldsLoop(field_parts, i + 1, fields)

ObjectFieldsLoop(field_parts, i, fields) ==
    IF i > Len(field_parts) THEN Ok(fields)
    ELSE ObjectFieldsStep(field_parts, i, fields,
                          _parse_single_field_with_nesting(strip(field_parts[i])))

_parse_object_fields(fields_str) ==
    ObjectFieldsLoop(
        _split_field_definitions_with_nesting(_normalize_string_schema(fields_str)),
        1, <<>>)

\* (field_name, field_def), or the exception of the SimpleField constructor
FieldOf(field_name, made) ==
    IF made.ok THEN Ok([name |-> field_name, def |-> made.val]) ELSE made

\* nested_structure['required'] = required
NestedField(field_name, nested_structure, required) ==
    IF nested_structure.ok
    THEN Ok([name |-> field_name, def |-> Put(nested_structure.val, "required", required)])
    ELSE nested_structure

\* field_obj.union_types = [...] on the SimpleField just made
WithUnionTypes(field_obj, union_types) ==
    Ok([field_obj.val EXCEPT !.union_types = ListV(NormalizeAll(union_types))])

UnionField(field_name, union_types, required) ==
    FieldOf(field_name,
            WithUnionTypes(SimpleField(_normalize_type_name(union_types[1]), required,
                                       EmptyDict),
                           union_types))

ArrayField(field_name, array_def, required) ==
    Ok([name |-> field_name,
        def |-> [type |-> "array",
                 items |-> [type |-> "simple", simple_type |-> array_def.array_type],
                 constraints |-> array_def.constraints,
                 required |-> required]])

\* the regular type: original_type and _parse_type_definition's pair computed
RegularField(field_name, original_type, type_def, required) ==
    IF original_type \in special_types
    THEN FieldOf(field_name,
                 SimpleField("string", required,
                             Put(type_def.constraints, "format_hint", StrV(original_type))))
    ELSE FieldOf(field_name, SimpleField(type_def.field_type, required, type_def.constraints))

\* a near miss of TypedField: the enum wrappers tried before the union
TypedFieldEnumFirst(field_name, field_def, required) ==
    IF startswith(field_def, "[") \/ startswith(field_def, "{")
    THEN NestedField(field_name, _parse_schema_structure(field_def), required)
    ELSE IF \E w \in {"enum(", "choice(", "select("} : startswith(field_def, w)
    THEN FieldOf(field_name,
                 SimpleField("string", required,
                             Put(EmptyDict, "choices", ListV(_parse_enum_values(field_def)))))
    ELSE IF Contains(field_def, "|")
    THEN UnionField(field_name, StripAll(split(field_def, "|")), required)
    ELSE IF \E w \in {"array(", "list("} : startswith(field_def, w)
    THEN ArrayField(field_name, _parse_array_type_definition(field_def), required)
    ELSE RegularField(field_name, strip(split(field_def, "(")[1]),
                      _parse_type_definition(field_def), required)

\* the branch `if ':' in field_str`, name and definition stripped
TypedField(field_name, field_def, required) ==
    IF startswith(field_def, "[") \/ startswith(field_def, "{")
    THEN NestedField(field_name, _parse_schema_structure(field_def), required)
    ELSE IF Contains(field_def, "|")
    THEN UnionField(field_name, StripAll(split(field_def, "|")), required)
    ELSE IF \E w \in {"enum(", "choice(", "select("} : startswith(field_def, w)
    THEN FieldOf(field_name,
                 SimpleField("string", required,
                             Put(EmptyDict, "choices", ListV(_parse_enum_values(field_def)))))
    ELSE IF \E w \in {"array(", "list("} : startswith(field_def, w)
    THEN ArrayField(field_name, _parse_array_type_definition(field_def), required)
    ELSE RegularField(field_name, strip(split(field_def, "(")[1]),
                      _parse_type_definition(field_def), required)

TypedFieldOf(nd, required) == TypedField(strip(nd[1]), strip(nd[2]), required)

\* the function once the optional marker is read and removed
SingleField(field_str, required) ==
    IF Contains(field_str, ":")
    THEN TypedFieldOf(split1(field_str, ":"), required)
    ELSE FieldOf(strip(field_str), SimpleField("string", required, EmptyDict))

_parse_single_field_with_nesting(field_str_) ==
    IF field_str_ = "" THEN Ok([name |-> "", def |-> NoneV])
    ELSE IF endswith(field_str_, "?")
    THEN SingleField(strip(SubSeq(field_str_, 1, Len(field_str_) - 1)), FALSE)
    ELSE SingleField(field_str_, TRUE)

(***************************************************************************)
(* IR compiler.  A compiled node is a record on its JSON keys: `type` and  *)
(* `format` are strings, `required` a sequence of names, `properties` the  *)
(* sequence of [name, schema] in insertion order, `anyOf` a sequence of    *)
(* nodes, and every other key holds the Python value the code stored.      *)
(***************************************************************************)

\* the members of field.union_types as the `for` loop sees them
Chars(s) == [i \in 1..Len(s) |-> Ch(s, i)]

Members(v) == IF v.k = "list" THEN v.v ELSE IF v.k = "str" THEN Chars(v.s) ELSE <<>>

\* a near miss of format_table: the hint itself emitted as the format
format_hint_as_format ==
    [email |-> "email", url |-> "url", uri |-> "uri",
     datetime |-> "datetime", date |-> "date", uuid |-> "uuid"]

format_table ==
    [email |-> "email", url |-> "uri", uri |-> "uri",
     datetime |-> "date-time", date |-> "date", uuid |-> "uuid"]

\* the `format` block shared by the field compiler and the simple-array compiler
WithFormat(prop, hint) ==
    IF hint \in DOMAIN format_table THEN Put(prop, "format", format_table[hint]) ELSE prop

PutIf(cond, prop, key, v) == IF cond THEN Put(prop, key, v) ELSE prop

\* a near miss of UnionProp: anyOf added to prop, `type` left beside it
UnionPropKeepingType(prop, union_types) ==
    IF Len(union_types) > 1
    THEN Put(prop, "anyOf", [i \in 1..Len(union_types) |-> [type |-> union_types[i]]])
    ELSE prop

\* prop = {"anyOf": union_schemas} when there is more than one union type
UnionProp(prop, union_types) ==
    IF Len(union_types) > 1
    THEN [anyOf |-> [i \in 1..Len(union_types) |-> [type |-> union_types[i]]]]
    ELSE prop

FormatProp(prop, format_hint) ==
    IF Truthy(format_hint) /\ format_hint.k = "str"
    THEN WithFormat(prop, format_hint.s)
    ELSE prop

\* the blocks of _simple_field_to_json_schema in order, each on the prop the
\* one before it left
BasicMetadata(field) ==
    PutIf(field.default # NoneV,
          PutIf(Truthy(field.description), [type |-> field.field_type],
                "description", field.description),
          "default", field.default)

UnionAndEnum(field) ==
    FormatProp(PutIf(Truthy(field.choices),
                     UnionProp(BasicMetadata(field), Members(field.union_types)),
                     "enum", field.choices),
               field.format_hint)

NumericConstraints(field) ==
    PutIf(field.field_type \in {"integer", "number"} /\ field.max_val # NoneV,
          PutIf(field.field_type \in {"integer", "number"} /\ field.min_val # NoneV,
                UnionAndEnum(field), "minimum", field.min_val),
          "maximum", field.max_val)

_simple_field_to_json_schema(field) ==
    PutIf(field.field_type = "string" /\ field.max_length # NoneV,
          PutIf(field.field_type = "string" /\ field.min_length # NoneV,
                NumericConstraints(field), "minLength", field.min_length),
          "maxLength", field.max_length)

RECURSIVE _structure_to_json_schema(_)
RECURSIVE PropertiesLoop(_, _)
RECURSIVE RequiredLoop(_, _)

\* properties[field_name] = prop_schema, over structure["fields"].items()
PropertiesLoop(fields, i) ==
    IF i > Len(fields) THEN <<>>
    ELSE <<[name |-> fields[i].name,
            schema |-> IF isinstance_SimpleField(fields[i].def)
                       THEN _simple_field_to_json_schema(fields[i].def)
                       ELSE _structure_to_json_schema(fields[i].def)]>>
         \o PropertiesLoop(fields, i + 1)

\* a near miss of IsRequired: the optional marker ignored
RequiredRegardless(field_def) == TRUE

\* field_def.required, or field_def.get('required', True) of a nested structure
IsRequired(field_def) ==
    IF "required" \in DOMAIN field_def THEN field_def.required ELSE TRUE

\* required.append(field_name), over the same loop
RequiredLoop(fields, i) ==
    IF i > Len(fields) THEN <<>>
    ELSE (IF IsRequired(fields[i].def) THEN <<fields[i].name>> ELSE <<>>)
         \o RequiredLoop(fields, i + 1)

ObjectSchema(properties, required) ==
    PutIf(required # <<>>, [type |-> "object", properties |-> properties],
          "required", required)

_object_structure_to_schema(structure) ==
    ObjectSchema(PropertiesLoop(structure.fields, 1), RequiredLoop(structure.fields, 1))

\* items_schema of a simple array
SimpleItems(simple_type, original_type) ==
    IF simple_type = "string"
    THEN WithFormat([type |-> simple_type], original_type)
    ELSE [type |-> simple_type]

ItemsSchema(items_structure) ==
    IF items_structure.type = "simple"
    THEN SimpleItems(items_structure.simple_type,
                     IF "original_type" \in DOMAIN items_structure
                     THEN items_structure.original_type
                     ELSE items_structure.simple_type)
    ELSE _structure_to_json_schema(items_structure)

\* a near miss of ArraySchema: both bounds always emitted, None when not given
ArraySchemaWithNulls(items_schema, constraints) ==
    [type |-> "array", items |-> items_schema,
     minItems |-> IF "min" \in DOMAIN constraints THEN constraints["min"] ELSE NoneV,
     maxItems |-> IF "max" \in DOMAIN constraints THEN constraints["max"] ELSE NoneV]

ArraySchema(items_schema, constraints) ==
    PutIf("max" \in DOMAIN constraints,
          PutIf("min" \in DOMAIN constraints, [type |-> "array", items |-> items_schema],
                "minItems", constraints["min"]),
          "maxItems", constraints["max"])

_array_structure_to_schema(structure) ==
    ArraySchema(ItemsSchema(structure.items),
                IF "constraints" \in DOMAIN structure THEN structure.constraints
                ELSE EmptyDict)

\* the parser builds object and array structures only: the ValueError of an
\* unknown structure type has no case here
_structure_to_json_schema(structure) ==
    CASE structure.type = "object" -> _object_structure_to_schema(structure)
      [] structure.type = "array" -> _array_structure_to_schema(structure)

Compiled(parsed_structure) ==
    IF parsed_structure.ok
    THEN Ok(_structure_to_json_schema(parsed_structure.val))
    ELSE parsed_structure

parse_string_schema(schema_str_) == Compiled(_parse_schema_structure(strip(schema_str_)))

string_to_json_schema(schema_str_) == parse_string_schema(schema_str_)

(***************************************************************************)
(* The schema strings the parser is called on.  Each is built from a       *)
(* `shape`, the description of what was written (which type token, which   *)
(* literals, which fields, optional or not); `schema_str` is its text.     *)
(* The shape holds what the grammar says each piece means (a token's       *)
(* canonical type and format, a literal's value), so a property of the     *)
(* compiled schema is stated against what was written.                     *)
(***************************************************************************)

MaxFields == 2
MaxUnion == 2
MaxEnum == 2
MaxCons == 2

Tok(text, norm, format) == [text |-> text, norm |-> norm, format |-> format]

StringTokens == {Tok("string", "string", ""), Tok("str", "string", ""),
                 Tok("text", "string", "")}

NumericTokens == {Tok("int", "integer", ""), Tok("integer", "integer", ""),
                  Tok("number", "number", ""), Tok("float", "number", ""),
                  Tok("decimal", "number", "")}

BooleanTokens == {Tok("bool", "boolean", ""), Tok("boolean", "boolean", "")}

SpecialTokens == {Tok("email", "string", "email"), Tok("url", "string", "uri"),
                  Tok("uri", "string", "uri"), Tok("datetime", "string", "date-time"),
                  Tok("date", "string", "date"), Tok("uuid", "string", "uuid"),
                  Tok("phone", "string", "")}

\* the vocabulary of _is_simple_type
SimpleTokens == StringTokens \cup NumericTokens \cup BooleanTokens \cup SpecialTokens

\* tokens outside it: the pseudo-type of a nullable union, and an unknown name
OtherTokens == {Tok("null", "null", ""), Tok("foo", "string", "")}

TypeTokens == SimpleTokens \cup OtherTokens

UnionTokens == {Tok("string", "string", ""), Tok("int", "integer", ""),
                Tok("null", "null", ""), Tok("email", "string", ""),
                Tok("foo", "string", "")}

\* a literal as written, its value, whether int() reads it and whether
\* float()/int() read it
Lit(text, val, isint, isnum) ==
    [text |-> text, val |-> val, isint |-> isint, isnum |-> isnum]

NoLit == Lit("", NoneV, FALSE, FALSE)

NumLits == {Lit("0", IntV(0), TRUE, TRUE), Lit("120", IntV(120), TRUE, TRUE),
            Lit("1.5", FloatV(3, 2), FALSE, TRUE), Lit("-2.0", FloatV(-2, 1), FALSE, TRUE)}

BadLits == {Lit("abc", NoneV, FALSE, FALSE)}

Lits == NumLits \cup BadLits

\* an enum value as written and as trimmed
EnumTexts == {[text |-> "active", val |-> "active"], [text |-> " b ", val |-> "b"],
              [text |-> "c d", val |-> "c d"]}

\* the sequences over S of at least m and at most n elements
SeqsOf(S, m, n) == UNION {[1..k -> S] : k \in m..n}

PlainSpecs == {[kind |-> "plain", t |-> t] : t \in TypeTokens}

PosSpecs == {[kind |-> "pos", t |-> t, a |-> a, b |-> b] :
                t \in TypeTokens, a \in Lits, b \in Lits}

NamedSpecs == {[kind |-> "named", t |-> t, min |-> a, max |-> b] :
                t \in TypeTokens, a \in Lits \cup {NoLit}, b \in Lits \cup {NoLit}}
              \ {[kind |-> "named", t |-> t, min |-> NoLit, max |-> NoLit] :
                    t \in TypeTokens}

EnumSpecs == {[kind |-> "enum", w |-> w, vals |-> vs] :
                w \in {"enum", "choice", "select"}, vs \in SeqsOf(EnumTexts, 1, MaxEnum)}

\* enum wrappers that do not match the whole type spec
InexactEnumSpecs ==
    {[kind |-> "inexact_enum", text |-> s] :
        s \in {"enum()", "enum(a,b", "enum(a,b)x", "choice(a)(b)", "select(a))",
               "enum(a,b) c"}}

UnionSpecs == {[kind |-> "union", ts |-> ts] : ts \in SeqsOf(UnionTokens, 2, MaxUnion)}

\* type specs that several branches of the dispatch could claim
DispatchSpecs ==
    {[kind |-> "dispatch", text |-> s] :
        s \in {"[int]|null", "{a:int}|null", "[int]", "enum(a|b)", "choice(a,b)|int",
               "array(int|string)", "list(int,max=3)|null", "string(min=1)|int",
               "int|enum(a,b)", "a|", "|", "enum(a,b)", "select(a)", "array(enum(a,b))",
               "array(int)", "list(str,min=1)", "enumx(a)", "string(min=1)"}}

LeafSpecs == PlainSpecs \cup PosSpecs \cup NamedSpecs \cup EnumSpecs
             \cup InexactEnumSpecs \cup UnionSpecs \cup DispatchSpecs

\* sep.join(seq[i:])
RECURSIVE Join(_, _, _)
Join(seq, sep, i) ==
    IF i > Len(seq) THEN ""
    ELSE IF i = Len(seq) THEN seq[i]
    ELSE seq[i] \o sep \o Join(seq, sep, i + 1)

NamedArgs(min, max) ==
    Join(SelectSeq(<<IF min = NoLit THEN "" ELSE "min=" \o min.text,
                     IF max = NoLit THEN "" ELSE "max=" \o max.text>>, NonEmpty),
         ",", 1)

RenderLeaf(spec) ==
    CASE spec.kind = "plain" -> spec.t.text
      [] spec.kind = "pos" -> spec.t.text \o "(" \o spec.a.text \o "," \o spec.b.text \o ")"
      [] spec.kind = "named" -> spec.t.text \o "(" \o NamedArgs(spec.min, spec.max) \o ")"
      [] spec.kind = "enum" ->
            spec.w \o "(" \o Join([i \in 1..Len(spec.vals) |-> spec.vals[i].text], ",", 1)
                   \o ")"
      [] spec.kind = "inexact_enum" -> spec.text
      [] spec.kind = "dispatch" -> spec.text
      [] spec.kind = "union" ->
            Join([i \in 1..Len(spec.ts) |-> spec.ts[i].text], "|", 1)

\* one field `id:<type spec>` or `id:<type spec>?`
LeafShapes ==
    {[family |-> "leaf", name |-> "id", spec |-> spec, opt |-> opt] :
        spec \in LeafSpecs, opt \in BOOLEAN}

Mark(opt) == IF opt THEN "?" ELSE ""

\* strings outside the grammar, and the corners of it
RawShapes ==
    {[family |-> "raw", text |-> s] :
        s \in {"", "   ", "invalid syntax here", "field:unknown_type",
               "field:string(invalid_constraint)", "{unclosed_brace", "[unclosed_array",
               "field1:string field2:int", "x:string(foo=bar)", "[string", "x:[string",
               "x:int(min=1", "a:int, a:string?", ":int", "?", "x:array(null)",
               "x:string(description=hi)", "x:int(default=5)",
               "x:string(default=a,description=b)?", "x:number(min=0.00001)",
               "x:string(union_types=ab,min=1)", "e:email(min_length=2)",
               "x:int(max_length=3)", "b:bool(min_val=1)",
               "a:{b:int}, a.b:string?", "a.b:string?, a:{b:int}",
               "a:[{b:int|null}], a[].b:string", "[{a:{b:[{c:int?}]}?}]"}}

\* the type spec of a field of a field list: its text after the name, and for a
\* nested object the [name, opt] of the fields written in it
FieldSpec(text, isobj, inner) == [text |-> text, isobj |-> isobj, inner |-> inner]

Decl(name, opt) == [name |-> name, opt |-> opt]

FieldSpecs ==
    {FieldSpec("", FALSE, <<>>),
     FieldSpec(":string(min=1,max=5)", FALSE, <<>>),
     FieldSpec(":string|null", FALSE, <<>>),
     FieldSpec(":[string](min=1,max=3)", FALSE, <<>>),
     FieldSpec(":{b:int, a?}", TRUE, <<Decl("b", FALSE), Decl("a", TRUE)>>),
     FieldSpec(":{a?}", TRUE, <<Decl("a", TRUE)>>)}

\* the names of a field list, in two declaration orders, neither alphabetical
NameOrders == {<<"zed", "id", "mid">>, <<"id", "mid", "zed">>}

FieldLists ==
    UNION {{[i \in 1..n |-> [name |-> names[i], spec |-> specs[i], opt |-> opts[i]]] :
               names \in NameOrders, specs \in [1..n -> FieldSpecs],
               opts \in [1..n -> BOOLEAN]} : n \in 1..MaxFields}

\* a field list as the whole schema, inside `{...}`, and as the items `[{...}]`
FieldsShapes ==
    {[family |-> "fields", wrap |-> wrap, decl |-> decl] :
        wrap \in {"plain", "braces", "items"}, decl \in FieldLists}

RenderFields(decl) ==
    Join([i \in 1..Len(decl) |-> decl[i].name \o decl[i].spec.text \o Mark(decl[i].opt)],
         ", ", 1)

\* what stands between the brackets of an array: a simple type token, an object,
\* a field list
Interior(text, kind, t) == [text |-> text, kind |-> kind, t |-> t]

SimpleInteriors == {Interior(t.text, "simple", t) : t \in SimpleTokens}

StructuredInteriors ==
    {Interior("{a:int}", "object", NoneV),
     Interior("{name:string, emails:[email](min=1,max=2)}", "object", NoneV),
     Interior("{b:[int]}", "object", NoneV),
     Interior("a:int, b", "fields", NoneV)}

\* interiors that test the classification: a token in another case or padded,
\* an empty object, and texts that are no simple type and no `{...}`
ClassifiedInteriors ==
    {Interior("EMAIL", "simple", Tok("EMAIL", "string", "email")),
     Interior("Int", "simple", Tok("Int", "integer", "")),
     Interior(" Url ", "simple", Tok(" Url ", "string", "uri")),
     Interior("{}", "object", NoneV),
     Interior("name:string, age:int?", "fields", NoneV),
     Interior("foo", "fields", NoneV),
     Interior("null", "fields", NoneV),
     Interior("string|int", "fields", NoneV),
     Interior("enum(a,b)", "fields", NoneV),
     Interior("{a:int}, b", "fields", NoneV)}

Con(key, lit) == [key |-> key, lit |-> lit]

\* the constraint lists `key=value,...` of at most MaxCons entries
ConLists == SeqsOf({Con(key, lit) : key \in {"min", "max", "foo"}, lit \in Lits},
                   0, MaxCons)

SomeConLists == {<<>>, <<Con("max", Lit("120", IntV(120), TRUE, TRUE))>>,
                 <<Con("min", Lit("0", IntV(0), TRUE, TRUE)),
                   Con("max", Lit("120", IntV(120), TRUE, TRUE))>>}

Positions == {[pos |-> "top", opt |-> FALSE], [pos |-> "field", opt |-> FALSE],
              [pos |-> "field", opt |-> TRUE]}

\* `[interior]`, `[interior](constraints)`: every interior under a few constraint
\* lists, and every constraint list on two interiors
BracketShapes ==
    {[family |-> "array", form |-> "bracket", interior |-> interior, cons |-> cons,
      pos |-> p.pos, opt |-> p.opt] :
        interior \in SimpleInteriors \cup StructuredInteriors, cons \in SomeConLists,
        p \in Positions}
    \cup
    {[family |-> "array", form |-> "bracket", interior |-> interior, cons |-> cons,
      pos |-> p.pos, opt |-> p.opt] :
        interior \in {Interior("int", "simple", Tok("int", "integer", "")),
                      Interior("{a:int}", "object", NoneV)},
        cons \in ConLists, p \in Positions}
    \cup
    {[family |-> "array", form |-> "bracket", interior |-> interior, cons |-> <<>>,
      pos |-> p.pos, opt |-> p.opt] :
        interior \in ClassifiedInteriors, p \in Positions}

\* `array(T,constraints)` and `list(T,constraints)`, a field's type spec
WrapperShapes ==
    {[family |-> "array", form |-> form, interior |-> interior, cons |-> cons,
      pos |-> "field", opt |-> opt] :
        form \in {"array", "list"}, interior \in SimpleInteriors, cons \in SomeConLists,
        opt \in BOOLEAN}
    \cup
    {[family |-> "array", form |-> "array", interior |-> interior, cons |-> cons,
      pos |-> "field", opt |-> FALSE] :
        interior \in {Interior("int", "simple", Tok("int", "integer", ""))},
        cons \in ConLists}

ArrayShapes == BracketShapes \cup WrapperShapes

RenderCons(cons) ==
    Join([i \in 1..Len(cons) |-> cons[i].key \o "=" \o cons[i].lit.text], ",", 1)

RenderArray(sh) ==
    IF sh.form = "bracket"
    THEN "[" \o sh.interior.text \o "]"
         \o (IF sh.cons = <<>> THEN "" ELSE "(" \o RenderCons(sh.cons) \o ")")
    ELSE sh.form \o "(" \o sh.interior.text
         \o (IF sh.cons = <<>> THEN "" ELSE "," \o RenderCons(sh.cons)) \o ")"

\* a `[` followed by an interior and a tail after which the string is neither
\* `[...]` nor `[...](...)`
MalformedShapes ==
    {[family |-> "malformed", interior |-> interior, tail |-> tail] :
        interior \in {"string", "int", "{a:int}", "a:int, b", ""},
        tail \in {"", "]?", "]()", "]|null", "](min=1", "](min=1)x", "]("}}

\* a schema `base` on one line without comments, and `text`, the same schema
\* with line breaks, full-line comments or inline comments added
Commented(base, text) == [family |-> "commented", base |-> base, text |-> text]

CommentedShapes ==
    {Commented("name:string, age:int?", s) :
        s \in {"name:string\nage:int?", "name:string,\nage:int?\n",
               "\n  name:string,\n\n  age:int?\n", "# c\nname:string, age:int?",
               "name:string, age:int? # c", "name:string, # c, [d} {\nage:int? # e",
               "name:string\n  # c: d\nage:int?"}}
    \cup
    {Commented("{name:string, age:int?}", s) :
        s \in {"{\n  name:string,\n  age:int?\n}", "{ # c\nname:string\nage:int?\n}",
               "{name:string, # c, d\nage:int?}", "\n{name:string, age:int?}\n",
               "# c\n{name:string, age:int?}", "{name:string, age:int?} # c",
               "{name:string, age:int?}\n# c"}}
    \cup
    {Commented("[name:string, age:int?]", s) :
        s \in {"[\n  name:string,\n  age:int?\n]", "[name:string, # c\nage:int?]",
               "# c\n[name:string, age:int?]", "[name:string, age:int?] # c"}}
    \cup
    {Commented("[string]", s) :
        s \in {"[\nstring\n]", "# c\n[string]", "[string] # c", "[string]\n# c"}}
    \cup
    {Commented("tags:[string](max=5), p:{a:int}?", s) :
        s \in {"tags:[string](max=5) # c\np:{a:int}?",
               "tags:[string](max=5)\np:{\n  a:int # c\n}?"}}

UpperCh(c) ==
    IF \E i \in 1..26 : Lower[i] = c
    THEN Upper[CHOOSE i \in 1..26 : Lower[i] = c]
    ELSE c

RECURSIVE upper(_)
upper(s) ==
    IF Len(s) <= 1 THEN UpperCh(s)
    ELSE upper(SubSeq(s, 1, Len(s) \div 2)) \o upper(From(s, Len(s) \div 2 + 1))

\* the token in another letter case: `EMAIL`, `Email`
Recase(text, style) ==
    IF style = "upper" THEN upper(text)
    ELSE IF style = "capital" THEN UpperCh(SubSeq(text, 1, 1)) \o From(text, 2)
    ELSE text

\* a simple type token written in another letter case, as a field's type
\* without and with constraints and as the item type of an array
CasedShapes ==
    {[family |-> "cased", t |-> t, style |-> style, form |-> form] :
        t \in SimpleTokens, style \in {"upper", "capital"},
        form \in {"plain", "named", "pos", "items", "field_items"}}

RenderCased(token, form) ==
    CASE form = "plain" -> "x:" \o token
      [] form = "named" -> "x:" \o token \o "(min=1,max=5)"
      [] form = "pos" -> "x:" \o token \o "(1,5)"
      [] form = "items" -> "[" \o token \o "]"
      [] form = "field_items" -> "x:[" \o token \o "]?"

Shapes == LeafShapes \cup RawShapes \cup FieldsShapes \cup ArrayShapes
          \cup MalformedShapes \cup CommentedShapes \cup CasedShapes

Render(sh) ==
    CASE sh.family = "leaf" -> sh.name \o ":" \o RenderLeaf(sh.spec) \o Mark(sh.opt)
      [] sh.family = "raw" -> sh.text
      [] sh.family = "commented" -> sh.text
      [] sh.family = "cased" -> RenderCased(Recase(sh.t.text, sh.style), sh.form)
      [] sh.family = "malformed" -> "[" \o sh.interior \o sh.tail
      [] sh.family = "fields" ->
            (IF sh.wrap = "plain" THEN RenderFields(sh.decl)
             ELSE IF sh.wrap = "braces" THEN "{" \o RenderFields(sh.decl) \o "}"
             ELSE "[{" \o RenderFields(sh.decl) \o "}]")
      [] sh.family = "array" ->
            IF sh.pos = "top" THEN RenderArray(sh)
            ELSE "tags:" \o RenderArray(sh) \o Mark(sh.opt)

Init ==
    /\ shape \in Shapes
    /\ schema_str = Render(shape)
    /\ pc = "call"
    /\ result = NoneV
    /\ field_node = NoneV
    /\ frame = NoneV
    /\ frames = NoneV

\* the caller's `schema = string_to_json_schema(schema_str)`
Call ==
    /\ pc = "call"
    /\ result' = string_to_json_schema(schema_str)
    /\ pc' = "done"
    /\ UNCHANGED <<schema_str, shape, field_node, frame, frames>>

Next == Call

Spec == Init /\ [][Next]_vars

(***************************************************************************)
(* The field compiler on field nodes built by a program                    *)
(***************************************************************************)

\* field nodes as a caller of SimpleField may build them, every keyword given
\* (None and "" being the defaults)
FieldNodes ==
    {SimpleField(field_type, TRUE,
                 [union_types |-> union_types, choices |-> choices,
                  format_hint |-> format_hint, description |-> description,
                  min_val |-> min_val, max_length |-> max_length]).val :
        field_type \in {"string", "integer"},
        union_types \in {NoneV, ListV(<<"string">>), ListV(<<"string", "null">>),
                         ListV(<<"integer", "string", "null">>)},
        choices \in {NoneV, ListV(<<"a", "b">>)},
        format_hint \in {NoneV, StrV("email"), StrV("phone")},
        description \in {StrV(""), StrV("hi")},
        min_val \in {NoneV, IntV(0)},
        max_length \in {NoneV, IntV(5)}}

InitField ==
    /\ field_node \in FieldNodes
    /\ schema_str = ""
    /\ shape = NoneV
    /\ frame = NoneV
    /\ frames = NoneV
    /\ pc = "call"
    /\ result = NoneV

\* the caller's `prop = _simple_field_to_json_schema(field_node)`
CompileField ==
    /\ pc = "call"
    /\ result' = Ok(_simple_field_to_json_schema(field_node))
    /\ pc' = "done"
    /\ UNCHANGED <<schema_str, shape, field_node, frame, frames>>

NextField == CompileField

SpecField == InitField /\ [][NextField]_vars

(***************************************************************************)
(* validate_string_schema                                                  *)
(***************************************************************************)

\* re.search(r'<opener>[^)]+\)', s) for a literal opener ending in '(': some
\* occurrence of the opener has a ')' after it, one character at least between
PatternFound(s, opener) ==
    \E j \in Occurrences(s, opener, 1) :
        FindFrom(s, ")", j + Len(opener)) > j + Len(opener)

constraint_patterns == {"string(", "int(", "number(", "text(", "]("}

FeatureIf(cond, feature) == IF cond THEN {feature} ELSE {}

\* the set `features` after the lexical scan of the raw string
Features(s) ==
    FeatureIf(Contains(s, "[") /\ Contains(s, "]"), "arrays")
    \cup FeatureIf(Contains(s, "{") /\ Contains(s, "}"), "objects")
    \cup FeatureIf(Contains(s, "?"), "optional_fields")
    \cup FeatureIf(\E w \in {"enum(", "choice(", "select("} : Contains(s, w), "enums")
    \cup FeatureIf(Contains(s, "|"), "union_types")
    \cup FeatureIf(\E t \in {"email", "url", "datetime", "date", "uuid", "phone"} :
                       Contains(s, t), "special_types")
    \cup FeatureIf(\E opener \in constraint_patterns : PatternFound(s, opener),
                   "constraints")

\* fields_dict[full_name] = field_info on an insertion-ordered dict
FieldsDictSet(fields_dict, full_name, field_info) ==
    IF \E i \in 1..Len(fields_dict) : fields_dict[i].name = full_name
    THEN [i \in 1..Len(fields_dict) |->
            IF fields_dict[i].name = full_name
            THEN [name |-> full_name, info |-> field_info]
            ELSE fields_dict[i]]
    ELSE Append(fields_dict, [name |-> full_name, info |-> field_info])

constraint_keys ==
    {"minimum", "maximum", "minLength", "maxLength", "minItems", "maxItems", "format", "enum"}

\* field_schema.get('type', 'unknown')
TypeOrUnknown(node) == IF "type" \in DOMAIN node THEN node.type ELSE "unknown"

\* a near miss of FullName: the path written without the dot
FullNameUndotted(prefix, field_name) == prefix \o field_name

\* f"{prefix}.{field_name}" if prefix else field_name
FullName(prefix, field_name) ==
    IF prefix # "" THEN prefix \o "." \o field_name ELSE field_name

\* the field_info of one property
FieldInfo(field_name, field_schema, required_fields) ==
    IF "anyOf" \in DOMAIN field_schema
    THEN [type |-> "union",
          required |-> field_name \in required_fields,
          constraints |-> [key \in DOMAIN field_schema \cap constraint_keys |->
                              field_schema[key]],
          union_types |-> [i \in 1..Len(field_schema.anyOf) |->
                              TypeOrUnknown(field_schema.anyOf[i])]]
    ELSE [type |-> TypeOrUnknown(field_schema),
          required |-> field_name \in required_fields,
          constraints |-> [key \in DOMAIN field_schema \cap constraint_keys |->
                              field_schema[key]]]

\* set(schema.get('required', []))
RequiredSet(schema) ==
    IF "required" \in DOMAIN schema
    THEN {schema.required[i] : i \in 1..Len(schema.required)}
    ELSE {}

RECURSIVE _extract_field_info(_, _, _)
RECURSIVE ExtractLoop(_, _, _, _)

\* the recursion below one property, on the dict that holds its field_info
ExtractNested(field_schema, fields_dict, full_name) ==
    IF TypeOrUnknown(field_schema) = "object"
    THEN _extract_field_info(field_schema, fields_dict, full_name)
    ELSE IF /\ TypeOrUnknown(field_schema) = "array"
            /\ "items" \in DOMAIN field_schema
            /\ TypeOrUnknown(field_schema.items) = "object"
    THEN _extract_field_info(field_schema.items, fields_dict, full_name \o "[]")
    ELSE fields_dict

ExtractStep(schema, fields_dict, prefix, i, property) ==
    ExtractLoop(schema,
                ExtractNested(property.schema,
                              FieldsDictSet(fields_dict, FullName(prefix, property.name),
                                            FieldInfo(property.name, property.schema,
                                                      RequiredSet(schema))),
                              FullName(prefix, property.name)),
                prefix, i + 1)

\* for field_name, field_schema in schema['properties'].items(), from the i-th on
ExtractLoop(schema, fields_dict, prefix, i) ==
    IF i > Len(schema.properties) THEN fields_dict
    ELSE ExtractStep(schema, fields_dict, prefix, i, schema.properties[i])

\* fields_dict as the call leaves it
_extract_field_info(schema, fields_dict, prefix) ==
    IF TypeOrUnknown(schema) = "object" /\ "properties" \in DOMAIN schema
    THEN ExtractLoop(schema, fields_dict, prefix, 1)
    ELSE IF /\ TypeOrUnknown(schema) = "array"
            /\ "items" \in DOMAIN schema
            /\ TypeOrUnknown(schema.items) = "object"
    THEN _extract_field_info(schema.items, fields_dict,
                             IF prefix # "" THEN prefix \o "[]" ELSE "[]")
    ELSE fields_dict

\* len(result['parsed_fields']) > 20
ManyFields == 20

Warnings(features, parsed_fields) ==
    (IF Len(parsed_fields) > ManyFields
     THEN <<"Schema has many fields (>20), consider simplifying">> ELSE <<>>)
    \o (IF "arrays" \in features /\ "constraints" \notin features
        THEN <<"Consider adding array size constraints for better LLM guidance">>
        ELSE <<>>)

\* str(e): the message of the exception
str_exception(raised) == [k |-> "message", of |-> raised.exc]

\* the report when the try block ran to its end
ReportValid(schema, features, parsed_fields) ==
    [valid |-> TRUE,
     errors |-> <<>>,
     warnings |-> Warnings(features, parsed_fields),
     parsed_fields |-> parsed_fields,
     generated_schema |-> schema,
     features_used |-> features]

\* a near miss of ReportRaised: the exception left to the caller
RaisedToCaller(raised) == raised

\* the report when parse_string_schema raised: the initial result with the
\* message appended to errors
ReportRaised(raised) ==
    [valid |-> FALSE,
     errors |-> <<str_exception(raised)>>,
     warnings |-> <<>>,
     parsed_fields |-> <<>>,
     generated_schema |-> NoneV,
     features_used |-> {}]

Report(schema_str_, parsed, features) ==
    IF parsed.ok
    THEN ReportValid(parsed.val, features, _extract_field_info(parsed.val, <<>>, ""))
    ELSE ReportRaised(parsed)

\* features_used holds the members of list(features), whose order the set
\* does not fix
validate_string_schema(schema_str_) ==
    Report(schema_str_, parse_string_schema(schema_str_), Features(schema_str_))

\* the caller's `report = validate_string_schema(schema_str)`
Validate ==
    /\ pc = "call"
    /\ result' = validate_string_schema(schema_str)
    /\ pc' = "done"
    /\ UNCHANGED <<schema_str, shape, field_node, frame, frames>>

NextValidate == Validate

SpecValidate == Init /\ [][NextValidate]_vars

(***************************************************************************)
(* The loop of _split_field_definitions_with_nesting, one character a step *)
(***************************************************************************)

MaxSplitLen == 4

SplitAlphabet == {"a", ",", " ", "[", "]", "{", "}", "(", ")"}

RECURSIVE StringsOfLen(_)
StringsOfLen(n) ==
    IF n = 0 THEN {""}
    ELSE {s \o c : s \in StringsOfLen(n - 1), c \in SplitAlphabet}

SplitInputs == UNION {StringsOfLen(n) : n \in 0..MaxSplitLen}

\* the locals before the first iteration; i is the index of the next char
SplitLocals ==
    [i |-> 1, parts |-> <<>>, current_part |-> "",
     bracket_depth |-> 0, brace_depth |-> 0, paren_depth |-> 0]

InitSplit ==
    /\ schema_str \in SplitInputs
    /\ shape = NoneV
    /\ field_node = NoneV
    /\ pc = "loop"
    /\ frame = SplitLocals
    /\ frames = NoneV
    /\ result = NoneV

\* a depth counter after char
DepthAfter(depth, char, open, close) ==
    IF char = open THEN depth + 1 ELSE IF char = close THEN depth - 1 ELSE depth

\* a near miss of AtZeroDepth: the parentheses not counted
AtZeroDepthOfBrackets(locals) ==
    locals.bracket_depth = 0 /\ locals.brace_depth = 0

\* bracket_depth == 0 and brace_depth == 0 and paren_depth == 0
AtZeroDepth(locals) ==
    locals.bracket_depth = 0 /\ locals.brace_depth = 0 /\ locals.paren_depth = 0

\* parts after `if current_part.strip(): parts.append(current_part.strip())`
AppendPart(parts, current_part) ==
    IF strip(current_part) # "" THEN Append(parts, strip(current_part)) ELSE parts

\* an iteration that ends at `current_part += char`
ReadChar ==
    /\ pc = "loop"
    /\ frame.i <= Len(schema_str)
    /\ ~(Ch(schema_str, frame.i) = "," /\ AtZeroDepth(frame))
    /\ frame' = [frame EXCEPT
                    !.i = @ + 1,
                    !.bracket_depth = DepthAfter(@, Ch(schema_str, frame.i), "[", "]"),
                    !.brace_depth = DepthAfter(@, Ch(schema_str, frame.i), "{", "}"),
                    !.paren_depth = DepthAfter(@, Ch(schema_str, frame.i), "(", ")"),
                    !.current_part = @ \o Ch(schema_str, frame.i)]
    /\ UNCHANGED <<schema_str, shape, pc, result, field_node, frames>>

\* an iteration that ends at `continue`
SplitAtComma ==
    /\ pc = "loop"
    /\ frame.i <= Len(schema_str)
    /\ Ch(schema_str, frame.i) = ","
    /\ AtZeroDepth(frame)
    /\ frame' = [frame EXCEPT
                    !.i = @ + 1,
                    !.parts = AppendPart(@, frame.current_part),
                    !.current_part = ""]
    /\ UNCHANGED <<schema_str, shape, pc, result, field_node, frames>>

\* after the loop: the last part appended, `return parts`
SplitReturn ==
    /\ pc = "loop"
    /\ frame.i > Len(schema_str)
    /\ result' = AppendPart(frame.parts, frame.current_part)
    /\ pc' = "done"
    /\ UNCHANGED <<schema_str, shape, field_node, frame, frames>>

NextSplit == ReadChar \/ SplitAtComma \/ SplitReturn

SpecSplit == InitSplit /\ [][NextSplit]_vars

(***************************************************************************)
(* parse_string_schema called from several threads                         *)
(***************************************************************************)

MaxThreads == 2

MaxCalls == 2

Threads == 1..MaxThreads

ThreadInputs == {"name:string, email:email", " [int](max=3) ", "x:string(foo=bar)"}

\* a thread that has not called yet
Idle ==
    [calls |-> 0, pc |-> "idle", argument |-> "", schema_str |-> "",
     parsed_structure |-> NoneV, result |-> NoneV]

InitThreads ==
    /\ frames = [t \in Threads |-> Idle]
    /\ schema_str = ""
    /\ shape = NoneV
    /\ field_node = NoneV
    /\ frame = NoneV
    /\ pc = "threads"
    /\ result = NoneV

\* a near miss of LocalSchemaStr: one schema_str for all the calls
SharedSchemaStr(frames_, t) == frames_[1].schema_str

\* the local schema_str of the call thread t is in
LocalSchemaStr(frames_, t) == frames_[t].schema_str

\* thread t calls parse_string_schema(argument)
Enter(t) ==
    /\ frames[t].pc \in {"idle", "done"}
    /\ frames[t].calls < MaxCalls
    /\ \E argument \in ThreadInputs :
          frames' = [frames EXCEPT ![t] =
                        [calls |-> frames[t].calls + 1, pc |-> "strip",
                         argument |-> argument, schema_str |-> argument,
                         parsed_structure |-> NoneV, result |-> NoneV]]
    /\ UNCHANGED <<schema_str, shape, pc, result, field_node, frame>>

\* schema_str = schema_str.strip()
Strip(t) ==
    /\ frames[t].pc = "strip"
    /\ frames' = [frames EXCEPT ![t].schema_str = strip(LocalSchemaStr(frames, t)),
                                ![t].pc = "parse"]
    /\ UNCHANGED <<schema_str, shape, pc, result, field_node, frame>>

\* the frame after parsed_structure = _parse_schema_structure(schema_str), which
\* returns or raises
Parsed(locals, parsed) ==
    IF parsed.ok
    THEN [locals EXCEPT !.parsed_structure = parsed.val, !.pc = "compile"]
    ELSE [locals EXCEPT !.result = parsed, !.pc = "done"]

ParseStructure(t) ==
    /\ frames[t].pc = "parse"
    /\ frames' = [frames EXCEPT ![t] =
                     Parsed(@, _parse_schema_structure(LocalSchemaStr(frames, t)))]
    /\ UNCHANGED <<schema_str, shape, pc, result, field_node, frame>>

\* return _structure_to_json_schema(parsed_structure)
Compile(t) ==
    /\ frames[t].pc = "compile"
    /\ frames' = [frames EXCEPT
                     ![t].result = Ok(_structure_to_json_schema(frames[t].parsed_structure)),
                     ![t].pc = "done"]
    /\ UNCHANGED <<schema_str, shape, pc, result, field_node, frame>>

NextThreads ==
    \E t \in Threads : Enter(t) \/ Strip(t) \/ ParseStructure(t) \/ Compile(t)

SpecThreads == InitThreads /\ [][NextThreads]_vars

(***************************************************************************)
(* json_schema_to_string and the round trip through it                     *)
(***************************************************************************)

\* str(n) for an int n >= 0
RECURSIVE NatToStr(_)
NatToStr(n) == IF n < 10 THEN Digits[n + 1] ELSE NatToStr(n \div 10) \o Digits[(n % 10) + 1]

\* str(n) for an int
IntToStr(n) == IF n < 0 THEN "-" \o NatToStr(-n) ELSE NatToStr(n)

\* the number of decimal places of num/den in lowest terms: the least k, from
\* k on, with den dividing 10^k
RECURSIVE Places(_, _)
Places(den, k) == IF Pow10(k) % den = 0 THEN k ELSE Places(den, k + 1)

RECURSIVE Zeros(_)
Zeros(n) == IF n <= 0 THEN "" ELSE "0" \o Zeros(n - 1)

\* the digits d of a float with k decimal places, written without exponent
Positional(d, k) ==
    IF k = 0 THEN d \o ".0"
    ELSE IF Len(d) > k
    THEN SubSeq(d, 1, Len(d) - k) \o "." \o SubSeq(d, Len(d) - k + 1, Len(d))
    ELSE "0." \o Zeros(k - Len(d)) \o d

\* the digits d of a float below 1e-4, written with the exponent -e
Exponential(d, e) ==
    SubSeq(d, 1, 1) \o (IF Len(d) > 1 THEN "." \o SubSeq(d, 2, Len(d)) ELSE "")
    \o "e-" \o (IF e < 10 THEN "0" ELSE "") \o NatToStr(e)

\* repr of the float whose digits are d, with k decimal places: the exponent
\* form when the decimal exponent is below -4 (floats below 1e16)
FloatText(sign, d, k) ==
    sign \o (IF Len(d) - 1 - k < -4 THEN Exponential(d, k + 1 - Len(d))
             ELSE Positional(d, k))

FloatToStr(num, den, k) ==
    FloatText(IF num < 0 THEN "-" ELSE "", NatToStr(Abs(num) * (Pow10(k) \div den)), k)

\* str(v), as the f-string formats a constraint value
str(v) ==
    CASE v.k = "int" -> IntToStr(v.n)
      [] v.k = "float" -> FloatToStr(v.num, v.den, Places(v.den, 0))
      [] v.k = "str" -> v.s
      [] v.k = "none" -> "None"

\* sep.join(seq)
RECURSIVE join(_, _)
join(sep, seq) ==
    IF Len(seq) = 0 THEN ""
    ELSE IF Len(seq) = 1 THEN seq[1]
    ELSE seq[1] \o sep \o join(sep, Tail(seq))

format_mapping ==
    [email |-> "email", uri |-> "url", url |-> "url", date |-> "date", uuid |-> "uuid",
     phone |-> "phone"] @@ ("date-time" :> "datetime")

\* type_mapping of _get_simple_type_from_json_schema
simple_type_mapping ==
    [string |-> "string", integer |-> "int", number |-> "number", boolean |-> "bool"]

_get_simple_type_from_json_schema(field_schema) ==
    IF "format" \in DOMAIN field_schema /\ field_schema.format \in DOMAIN format_mapping
    THEN format_mapping[field_schema.format]
    ELSE IF "enum" \in DOMAIN field_schema
    THEN "enum(" \o join(",", Members(field_schema.enum)) \o ")"
    ELSE Get(simple_type_mapping, Get(field_schema, "type", "string"), "string")

\* constraints[key] = value on an insertion-ordered dict
ItemSet(items, key, value) ==
    IF \E i \in 1..Len(items) : items[i].key = key
    THEN [i \in 1..Len(items) |->
            IF items[i].key = key THEN [key |-> key, value |-> value] ELSE items[i]]
    ELSE Append(items, [key |-> key, value |-> value])

\* if key in field_schema: constraints[name] = field_schema[key]
ItemSetIf(items, field_schema, key, name) ==
    IF key \in DOMAIN field_schema THEN ItemSet(items, name, str(field_schema[key]))
    ELSE items

\* the constraints dict, every value as the f-string will write it
_extract_constraints_from_json_schema(field_schema) ==
    IF "pattern" \in DOMAIN field_schema
    THEN ItemSet(ItemSetIf(ItemSetIf(ItemSetIf(ItemSetIf(<<>>, field_schema,
                     "minLength", "min"), field_schema, "maxLength", "max"),
                     field_schema, "minimum", "min"), field_schema, "maximum", "max"),
                 "pattern", "'" \o str(field_schema.pattern) \o "'")
    ELSE ItemSetIf(ItemSetIf(ItemSetIf(ItemSetIf(<<>>, field_schema,
                     "minLength", "min"), field_schema, "maxLength", "max"),
                     field_schema, "minimum", "min"), field_schema, "maximum", "max")

\* f"{field_name}:{field_type}({constraint_str})", or without the list
FieldString(field_name, field_type, constraints) ==
    IF Len(constraints) > 0
    THEN field_name \o ":" \o field_type \o "("
         \o join(",", [i \in 1..Len(constraints) |->
                          constraints[i].key \o "=" \o constraints[i].value])
         \o ")"
    ELSE field_name \o ":" \o field_type

_convert_field_schema_to_string(field_name, field_schema) ==
    FieldString(field_name, _get_simple_type_from_json_schema(field_schema),
                _extract_constraints_from_json_schema(field_schema))

\* the field_strings of the loop over properties.items()
FieldStrings(properties, required_fields) ==
    [i \in 1..Len(properties) |->
        _convert_field_schema_to_string(properties[i].name, properties[i].schema)
        \o (IF properties[i].name \notin required_fields THEN "?" ELSE "")]

\* the braces around more than one field string, or any that holds ':'
Wrapped(field_strings) ==
    IF Len(field_strings) > 1 \/ \E i \in 1..Len(field_strings) : Contains(field_strings[i], ":")
    THEN "{" \o join(", ", field_strings) \o "}"
    ELSE join(", ", field_strings)

_convert_object_schema_to_string(json_schema) ==
    IF Len(Get(json_schema, "properties", <<>>)) = 0 THEN "{}"
    ELSE Wrapped(FieldStrings(json_schema.properties, RequiredSet(json_schema)))

_convert_array_schema_to_string(json_schema) ==
    IF Get(Get(json_schema, "items", EmptyDict), "type", "") = "object"
    THEN "[" \o _convert_object_schema_to_string(json_schema.items) \o "]"
    ELSE "[" \o _get_simple_type_from_json_schema(Get(json_schema, "items", EmptyDict)) \o "]"

json_schema_to_string(json_schema) ==
    IF Get(json_schema, "type", "") = "array"
    THEN _convert_array_schema_to_string(json_schema)
    ELSE IF Get(json_schema, "type", "") = "object"
    THEN _convert_object_schema_to_string(json_schema)
    ELSE _convert_field_schema_to_string("field", json_schema)

\* the caller's locals before J = string_to_json_schema(s)
InitRoundTrip ==
    /\ shape \in Shapes
    /\ schema_str = Render(shape)
    /\ frame = [text |-> Render(shape), json_schema |-> NoneV]
    /\ pc = "forward"
    /\ result = NoneV
    /\ field_node = NoneV
    /\ frames = NoneV

\* the step after string_to_json_schema(text) returned or raised: on the
\* caller's string J is kept and converted back next, on the converted string
\* (or after a raise) the outcome is the result
AfterConversion(out) ==
    IF pc = "forward" /\ out.ok
    THEN /\ frame' = [frame EXCEPT !.json_schema = out.val]
         /\ pc' = "reverse"
         /\ UNCHANGED result
    ELSE /\ result' = out
         /\ pc' = "done"
         /\ UNCHANGED frame

ToJsonSchema ==
    /\ pc \in {"forward", "back"}
    /\ AfterConversion(string_to_json_schema(frame.text))
    /\ UNCHANGED <<schema_str, shape, field_node, frames>>

\* text = json_schema_to_string(J)
ToSchemaString ==
    /\ pc = "reverse"
    /\ frame' = [frame EXCEPT !.text = json_schema_to_string(frame.json_schema)]
    /\ pc' = "back"
    /\ UNCHANGED <<schema_str, shape, result, field_node, frames>>

NextRoundTrip == ToJsonSchema \/ ToSchemaString

SpecRoundTrip == InitRoundTrip /\ [][NextRoundTrip]_vars

(***************************************************************************)
(* The recursion of the structure parser, call by call.  `frames` is the   *)
(* stack of the calls of _parse_schema_structure in progress: the argument *)
(* of each, the field definitions its _parse_object_fields loops over and  *)
(* the index of the one it is at.                                          *)
(***************************************************************************)

MaxDepth == 6

RecursionInputs ==
    {"", "name", "a:int, b:string?", "a:{b:{c:int}}", "a:{b:[{c:{d}}]}?, e:[f:{g}]",
     "{a:{b:int}, c:[{d:int}](max=3)}", "[{a:[{b:{c:int}}]}]", "[a:{b:int}, c]",
     "x:{\na\nb\nc\n}", "x:[\na\n]", "p:{\nq:{\nr\ns\n}\n}", "p:{ # c\n  q:{\n    r:int\n  }\n}",
     "a:{x}}, b:{y", "a:{b}}, c:{d}}, e:{f", "a:{b:{c}", "a:[b:[c:[d", "a:{b:[c:{d",
     "a:{b:string(foo=bar), c:{d}}, e:{f}", "a:{b}, c:string(foo=bar), e:{f}",
     "a:[int], b:[{c:[string]}]", "{a:{b:{c:{d:int}}}}", "a:{b:int}|null, c:[{d}]|null",
     "  a : { b : { c } }  ", "a:{b:{}}", "a:[{}]", "a:{:{b}}", "a:{b}?, c:{d:{e}?}?",
     "a:[{b}](min=1), c:[d:{e}](max=2)", "a:{b\n}}, c:{d\n}}, e:{f"}

\* the argument of _parse_object_fields in the array branch, the interior known:
\* none for a simple type
InteriorFieldsArgument(inner_content) ==
    IF startswith(inner_content, "{") /\ endswith(inner_content, "}")
    THEN <<strip(SubSeq(inner_content, 2, Len(inner_content) - 1))>>
    ELSE IF _is_simple_type(inner_content) THEN <<>>
    ELSE <<inner_content>>

ArrayFieldsArgument(s, close) ==
    IF ArrayConstraintMatch(s, close)
    THEN InteriorFieldsArgument(strip(SubSeq(s, 2, close - 1)))
    ELSE IF endswith(s, "]")
    THEN InteriorFieldsArgument(strip(SubSeq(s, 2, Len(s) - 1)))
    ELSE <<>>

\* the string a call of _parse_schema_structure hands to _parse_object_fields,
\* if it calls it
ObjectFieldsArgument(s) ==
    IF startswith(s, "{") /\ endswith(s, "}")
    THEN <<strip(SubSeq(s, 2, Len(s) - 1))>>
    ELSE IF startswith(s, "[")
    THEN ArrayFieldsArgument(s, Find(s, "]"))
    ELSE <<s>>

\* the field_part.strip() of the loop of _parse_object_fields
FieldParts(fields_str) ==
    StripAll(_split_field_definitions_with_nesting(_normalize_string_schema(fields_str)))

FieldPartsOf(argument) == IF argument = <<>> THEN <<>> ELSE FieldParts(argument[1])

\* the frame of _parse_schema_structure(schema_str_)
Frame(schema_str_) ==
    [schema_str |-> schema_str_,
     field_parts |-> FieldPartsOf(ObjectFieldsArgument(strip(schema_str_))),
     i |-> 1]

\* field_str once the optional marker is removed
Unmarked(field_str) ==
    IF endswith(field_str, "?") THEN strip(SubSeq(field_str, 1, Len(field_str) - 1))
    ELSE field_str

\* a near miss of FieldDef: the field passed on whole
FieldDefWhole(field_str) == field_str

\* field_def: what follows the first ':' of the field
FieldDef(field_str) == strip(split1(field_str, ":")[2])

\* `if field_def.startswith('[') or field_def.startswith('{')`
IsNested(field_str) ==
    /\ Contains(field_str, ":")
    /\ startswith(strip(split1(field_str, ":")[2]), "[")
       \/ startswith(strip(split1(field_str, ":")[2]), "{")

InitRecursion ==
    /\ schema_str \in RecursionInputs
    /\ frames = <<Frame(strip(schema_str))>>
    /\ pc = "parsing"
    /\ shape = NoneV
    /\ result = NoneV
    /\ field_node = NoneV
    /\ frame = NoneV

Top == frames[Len(frames)]

AtField ==
    /\ pc = "parsing"
    /\ Top.i <= Len(Top.field_parts)

\* nested_structure = _parse_schema_structure(field_def)
CallStructure ==
    /\ AtField
    /\ IsNested(Unmarked(Top.field_parts[Top.i]))
    /\ Len(frames) < MaxDepth
    /\ frames' = Append(frames, Frame(FieldDef(Unmarked(Top.field_parts[Top.i]))))
    /\ UNCHANGED <<schema_str, shape, pc, result, field_node, frame>>

\* the loop after a field that is no nested structure: on to the next one, or
\* the exception of the SimpleField constructor unwinds every call
AfterField(parsed) ==
    IF parsed.ok
    THEN /\ frames' = [frames EXCEPT ![Len(frames)].i = @ + 1]
         /\ UNCHANGED <<pc, result>>
    ELSE /\ frames' = <<>>
         /\ pc' = "raised"
         /\ result' = parsed

ParseField ==
    /\ AtField
    /\ ~IsNested(Unmarked(Top.field_parts[Top.i]))
    /\ AfterField(_parse_single_field_with_nesting(Top.field_parts[Top.i]))
    /\ UNCHANGED <<schema_str, shape, field_node, frame>>

\* the loop is over: the call returns to the loop of its caller, the first
\* call to parse_string_schema
ReturnStructure ==
    /\ pc = "parsing"
    /\ Top.i > Len(Top.field_parts)
    /\ IF Len(frames) = 1
       THEN frames' = <<>> /\ pc' = "returned"
       ELSE /\ frames' = [SubSeq(frames, 1, Len(frames) - 1)
                             EXCEPT ![Len(frames) - 1].i = @ + 1]
            /\ pc' = pc
    /\ UNCHANGED <<schema_str, shape, result, field_node, frame>>

NextRecursion == CallStructure \/ ParseField \/ ReturnStructure

SpecRecursion == InitRecursion /\ [][NextRecursion]_vars /\ WF_vars(NextRecursion)
(***************************************************************************)
(* core/builders.py: simple_schema and its field compiler, beside the      *)
(* parser's object compiler on the same fields.  `frame` is the dict       *)
(* `fields`, a sequence of [name, def] in insertion order; `frames` holds  *)
(* what simple_schema returned.                                            *)
(***************************************************************************)

\* prop = {"anyOf": union_schemas}, with the description if there is one
BuildersUnion(field, union_types) ==
    PutIf(Truthy(field.description),
          [anyOf |-> [i \in 1..Len(union_types) |-> [type |-> union_types[i]]]],
          "description", field.description)

\* the regular single type up to the format hints
BuildersMetadata(field) ==
    FormatProp(PutIf(Truthy(field.choices),
                     PutIf(field.default # NoneV,
                           PutIf(Truthy(field.description), [type |-> field.field_type],
                                 "description", field.description),
                           "default", field.default),
                     "enum", field.choices),
               field.format_hint)

BuildersNumeric(field) ==
    PutIf(field.field_type \in {"integer", "number"} /\ field.max_val # NoneV,
          PutIf(field.field_type \in {"integer", "number"} /\ field.min_val # NoneV,
                BuildersMetadata(field), "minimum", field.min_val),
          "maximum", field.max_val)

BuildersString(field) ==
    PutIf(field.field_type = "string" /\ field.max_length # NoneV,
          PutIf(field.field_type = "string" /\ field.min_length # NoneV,
                BuildersNumeric(field), "minLength", field.min_length),
          "maxLength", field.max_length)

\* the array constraints, for when the field itself is an array
BuildersItems(field) ==
    PutIf(field.max_items # NoneV,
          PutIf(field.min_items # NoneV, BuildersString(field),
                "minItems", field.min_items),
          "maxItems", field.max_items)

\* builders._simple_field_to_json_schema
builders_simple_field_to_json_schema(field) ==
    IF Len(Members(field.union_types)) > 1
    THEN BuildersUnion(field, Members(field.union_types))
    ELSE BuildersItems(field)

\* `if isinstance(field_def, str): field_def = SimpleField(field_def)`
AsSimpleField(field_def_) ==
    IF field_def_.k = "str" THEN SimpleField(field_def_.s, TRUE, EmptyDict).val
    ELSE field_def_.v

RECURSIVE BuildersProperties(_, _)
BuildersProperties(fields, i) ==
    IF i > Len(fields) THEN <<>>
    ELSE <<[name |-> fields[i].name,
            schema |-> builders_simple_field_to_json_schema(AsSimpleField(fields[i].def))]>>
         \o BuildersProperties(fields, i + 1)

RECURSIVE BuildersRequired(_, _)
BuildersRequired(fields, i) ==
    IF i > Len(fields) THEN <<>>
    ELSE (IF AsSimpleField(fields[i].def).required THEN <<fields[i].name>> ELSE <<>>)
         \o BuildersRequired(fields, i + 1)

simple_schema(fields) ==
    PutIf(BuildersRequired(fields, 1) # <<>>,
          [type |-> "object", properties |-> BuildersProperties(fields, 1)],
          "required", BuildersRequired(fields, 1))

\* a SimpleField as a value of the dict, and a plain type name
Obj(field) == [k |-> "obj", v |-> field]

\* field nodes over every keyword of the constructor
KeywordNodes ==
    {SimpleField(field_type, required,
                 [union_types |-> union_types, choices |-> choices,
                  format_hint |-> format_hint, description |-> description,
                  default |-> default, min_val |-> min_val, max_length |-> max_length,
                  min_items |-> min_items]).val :
        field_type \in {"string", "integer"}, required \in BOOLEAN,
        union_types \in {NoneV, ListV(<<"string", "null">>)},
        choices \in {NoneV, ListV(<<"a", "b">>)},
        format_hint \in {NoneV, StrV("email")},
        description \in {StrV(""), StrV("hi")},
        default \in {NoneV, StrV("a")},
        min_val \in {NoneV, IntV(0)},
        max_length \in {NoneV, IntV(5)},
        min_items \in {NoneV, IntV(1)}}

PlainNodes ==
    {SimpleField(field_type, required, EmptyDict).val :
        field_type \in {"string", "integer"}, required \in BOOLEAN}

\* dicts of one field, and of two fields
FieldDicts ==
    {<<[name |-> "x", def |-> Obj(node)]>> : node \in KeywordNodes}
    \cup {<<[name |-> "zed", def |-> Obj(a)], [name |-> "id", def |-> Obj(b)]>> :
             a \in PlainNodes, b \in PlainNodes}
    \cup {<<[name |-> "zed", def |-> StrV("integer")], [name |-> "id", def |-> Obj(b)]>> :
             b \in PlainNodes}

InitBuilders ==
    /\ frame \in FieldDicts
    /\ frames = NoneV
    /\ pc = "builders"
    /\ result = NoneV
    /\ schema_str = ""
    /\ shape = NoneV
    /\ field_node = NoneV

\* schema = simple_schema(fields)
CallSimpleSchema ==
    /\ pc = "builders"
    /\ frames' = simple_schema(frame)
    /\ pc' = "parser"
    /\ UNCHANGED <<schema_str, shape, result, field_node, frame>>

\* the structure the parser would have built of the same fields
FieldsStructure(fields) ==
    [type |-> "object",
     fields |-> [i \in 1..Len(fields) |->
                    [name |-> fields[i].name, def |-> AsSimpleField(fields[i].def)]]]

\* schema = _object_structure_to_schema({"type": "object", "fields": fields})
CallObjectCompiler ==
    /\ pc = "parser"
    /\ result' = _object_structure_to_schema(FieldsStructure(frame))
    /\ pc' = "done"
    /\ UNCHANGED <<schema_str, shape, field_node, frame, frames>>

NextBuilders == CallSimpleSchema \/ CallObjectCompiler

SpecBuilders == InitBuilders /\ [][NextBuilders]_vars
(***************************************************************************)
(* integrations/reverse.py: openapi_to_json_schema.  `shape` is the schema *)
(* as the caller built it, `frame` the object the caller still holds       *)
(* (openapi_schema), `result` the dict json_schema, `field_node` the       *)
(* position of the loop over the properties.  dict.copy() is shallow: the  *)
(* copy and the argument hold the same `properties` dict and the same      *)
(* `items` dict.                                                           *)
(***************************************************************************)

openapi_only_keywords == {"example", "examples", "discriminator", "xml", "externalDocs"}

\* for keyword in openapi_only_keywords: json_schema.pop(keyword, None)
PopKeywords(json_schema) ==
    [y \in DOMAIN json_schema \ openapi_only_keywords |-> json_schema[y]]

\* properties[prop_name] = <converted>, the key keeping its place
SetProperty(properties, i, prop_schema) ==
    [properties EXCEPT ![i] = [name |-> properties[i].name, schema |-> prop_schema]]

\* the dict the call returns
RECURSIVE openapi_to_json_schema(_)
openapi_to_json_schema(openapi_schema) ==
    LET popped == PopKeywords(openapi_schema)
        with_properties ==
            IF Has(popped, "properties")
            THEN Put(popped, "properties",
                     [i \in 1..Len(popped.properties) |->
                         [name |-> popped.properties[i].name,
                          schema |-> openapi_to_json_schema(popped.properties[i].schema)]])
            ELSE popped
    IN  IF Has(with_properties, "items")
        THEN Put(with_properties, "items", openapi_to_json_schema(with_properties.items))
        ELSE with_properties

\* the argument object once the call has returned: its own keys are those of
\* before (the pops and the assignment of `items` act on the copy), its
\* `properties` dict is the one the loop wrote into, and its `items` dict was
\* the argument of the inner call
RECURSIVE ArgumentAfterCall(_)
ArgumentAfterCall(openapi_schema) ==
    LET with_properties ==
            IF Has(openapi_schema, "properties")
            THEN Put(openapi_schema, "properties",
                     [i \in 1..Len(openapi_schema.properties) |->
                         [name |-> openapi_schema.properties[i].name,
                          schema |-> openapi_to_json_schema(
                                        openapi_schema.properties[i].schema)]])
            ELSE openapi_schema
    IN  IF Has(with_properties, "items")
        THEN Put(with_properties, "items", ArgumentAfterCall(with_properties.items))
        ELSE with_properties

\* schemas without sub-schemas, with and without OpenAPI-only keywords
LeafSchemas ==
    {[type |-> "string"],
     [type |-> "string", example |-> StrV("John")],
     [type |-> "integer", xml |-> StrV("attr"), examples |-> ListV(<<"1", "2">>)]}

ObjectSchemaOf(properties) == [type |-> "object", properties |-> properties]

ArraySchemaOf(items) == [type |-> "array", items |-> items]

InnerSchemas ==
    LeafSchemas
    \cup {ObjectSchemaOf(<<[name |-> "name", schema |-> a]>>) : a \in LeafSchemas}
    \cup {ObjectSchemaOf(<<[name |-> "name", schema |-> a], [name |-> "age", schema |-> b]>>) :
             a \in LeafSchemas, b \in LeafSchemas}
    \cup {ArraySchemaOf(a) : a \in LeafSchemas}

OpenapiSchemas ==
    InnerSchemas
    \cup {ObjectSchemaOf(<<[name |-> "user", schema |-> a]>>) : a \in InnerSchemas}
    \cup {ArraySchemaOf(a) : a \in InnerSchemas}
    \cup {Put(ObjectSchemaOf(<<[name |-> "user", schema |-> a]>>), "externalDocs", StrV("url")) :
             a \in InnerSchemas}
    \cup {Put(ArraySchemaOf(a), "discriminator", StrV("kind")) : a \in InnerSchemas}
    \cup {Put(ObjectSchemaOf(<<[name |-> "user", schema |-> a]>>), "items", b) :
             a \in LeafSchemas, b \in LeafSchemas}

InitOpenapi ==
    /\ shape \in OpenapiSchemas
    /\ frame = shape
    /\ result = NoneV
    /\ field_node = 0
    /\ pc = "call"
    /\ schema_str = ""
    /\ frames = NoneV

\* json_schema = openapi_schema.copy(), and the pops
CopyAndPop ==
    /\ pc = "call"
    /\ result' = PopKeywords(frame)
    /\ field_node' = 1
    /\ pc' = "properties"
    /\ UNCHANGED <<schema_str, shape, frame, frames>>

InLoop == Has(result, "properties") /\ field_node <= Len(result.properties)

\* json_schema['properties'][prop_name] = openapi_to_json_schema(prop_schema):
\* the dict written into is the argument's too
ConvertProperty ==
    /\ pc = "properties"
    /\ InLoop
    /\ result' = Put(result, "properties",
                     SetProperty(result.properties, field_node,
                         openapi_to_json_schema(result.properties[field_node].schema)))
    /\ frame' = Put(frame, "properties", result'.properties)
    /\ field_node' = field_node + 1
    /\ UNCHANGED <<schema_str, shape, pc, frames>>

\* json_schema['items'] = openapi_to_json_schema(json_schema['items']), where
\* there are items, and return json_schema
ConvertItems ==
    /\ pc = "properties"
    /\ ~InLoop
    /\ result' = IF Has(result, "items")
                 THEN Put(result, "items", openapi_to_json_schema(result.items))
                 ELSE result
    /\ frame' = IF Has(frame, "items")
                THEN Put(frame, "items", ArgumentAfterCall(frame.items))
                ELSE frame
    /\ pc' = "done"
    /\ UNCHANGED <<schema_str, shape, field_node, frames>>

NextOpenapi == CopyAndPop \/ ConvertProperty \/ ConvertItems

SpecOpenapi == InitOpenapi /\ [][NextOpenapi]_vars
(***************************************************************************)
(* Properties of the compiled schema, each stated on the shape the schema  *)
(* string was written from.                                                *)
(***************************************************************************)

\* the call has returned a schema
Returned == pc = "done" /\ result.ok


\* the compiled property of the one field of a leaf shape
LeafSchema == result.val.properties[1].schema

\* the node compiled from the array of an array shape
ArrayNode == IF shape.pos = "top" THEN result.val ELSE result.val.properties[1].schema

\* the object compiled from the field list of a fields shape
FieldsNode == IF shape.wrap = "items" THEN result.val.items ELSE result.val

\* C1: for every input string, malformed and unknown constraint arguments such
\* as `x:string(foo=bar)` included, the call returns a compiled schema and does
\* not raise.
C1_NeverRaises == pc = "done" => result.ok

\* the branch the fixed order gives a type spec: nested > union > enum > array
\* > plain
FirstMatch(text) ==
    IF startswith(text, "[") \/ startswith(text, "{") THEN "nested"
    ELSE IF \E i \in 1..Len(text) : SubSeq(text, i, i) = "|" THEN "union"
    ELSE IF \E w \in {"enum(", "choice(", "select("} : startswith(text, w) THEN "enum"
    ELSE IF \E w \in {"array(", "list("} : startswith(text, w) THEN "array"
    ELSE "plain"

\* the leaf was written as a union
WrittenAsUnion(spec) ==
    \/ spec.kind = "union"
    \/ spec.kind = "dispatch" /\ FirstMatch(spec.text) = "union"

RECURSIVE TypeXorAnyOf(_)
TypeXorAnyOf(node) ==
    /\ Has(node, "type") # Has(node, "anyOf")
    /\ (Has(node, "properties") =>
            \A i \in 1..Len(node.properties) : TypeXorAnyOf(node.properties[i].schema))
    /\ (Has(node, "items") => TypeXorAnyOf(node.items))

\* C2: every node of a compiled schema (the root, every property value, every
\* `items`) has exactly one of `type` and `anyOf`; a union leaf has `anyOf`,
\* every other leaf has `type`.
C2_TypeXorAnyOf ==
    Returned =>
        /\ TypeXorAnyOf(result.val)
        /\ (shape.family = "leaf" =>
                (Has(LeafSchema, "anyOf") <=> WrittenAsUnion(shape.spec)))

C2_Witness ==
    /\ Returned
    /\ shape.family = "leaf"
    /\ shape.spec.kind = "union"
    /\ Has(LeafSchema, "anyOf")
    /\ ~Has(LeafSchema, "type")
    /\ Has(result.val, "type")

RECURSIVE RequiredNames(_, _)
RequiredNames(decl, i) ==
    IF i > Len(decl) THEN <<>>
    ELSE (IF decl[i].opt THEN <<>> ELSE <<decl[i].name>>) \o RequiredNames(decl, i + 1)

DeclaredNames(decl) == [i \in 1..Len(decl) |-> decl[i].name]

PropertyNames(node) == [i \in 1..Len(node.properties) |-> node.properties[i].name]

\* node is the object of the field list decl: all names in declaration order,
\* `required` the unmarked ones in that order, absent when there is none
ObjectMatches(node, decl) ==
    /\ node.type = "object"
    /\ PropertyNames(node) = DeclaredNames(decl)
    /\ IF RequiredNames(decl, 1) = <<>>
       THEN ~Has(node, "required")
       ELSE Has(node, "required") /\ node.required = RequiredNames(decl, 1)

\* C3: an object compiled from a field list with distinct names lists all the
\* fields in `properties` in declaration order, and in `required` exactly those
\* without a trailing `?`, in declaration order (leaves, nested objects and
\* nested arrays alike); `required` is absent when no field is required.
C3_RequiredInOrder ==
    (pc = "done" /\ shape.family = "fields") =>
        /\ result.ok
        /\ ObjectMatches(FieldsNode, shape.decl)
        /\ \A i \in 1..Len(shape.decl) :
              shape.decl[i].spec.isobj =>
                  ObjectMatches(FieldsNode.properties[i].schema, shape.decl[i].spec.inner)

C3_Witness ==
    /\ Returned
    /\ shape.family = "fields"
    /\ Len(shape.decl) = 2
    /\ shape.decl[1].opt /\ shape.decl[1].spec.text = ":[string](min=1,max=3)"
    /\ ~shape.decl[2].opt /\ shape.decl[2].spec.text = ":{b:int, a?}"
    /\ FieldsNode.required = <<shape.decl[2].name>>
    /\ FieldsNode.properties[2].schema.required = <<"b">>

\* an integer bound under `key` is in the constraint list, and the last one
BoundGiven(cons, key) == \E i \in 1..Len(cons) : cons[i].key = key /\ cons[i].lit.isint

BoundValue(cons, key) ==
    cons[Max({i \in 1..Len(cons) : cons[i].key = key /\ cons[i].lit.isint})].lit.val

BoundIs(node, out, cons, key) ==
    IF BoundGiven(cons, key)
    THEN Has(node, out) /\ node[out] = BoundValue(cons, key)
    ELSE ~Has(node, out)

\* the items the interior compiles to when it stands alone in brackets
ItemsOfInterior(interior) == parse_string_schema("[" \o interior.text \o "]").val.items

\* C4: `[<interior>](<constraints>)` with a bracket-balanced interior compiles
\* to an array whose items are compiled from the interior and whose
\* minItems/maxItems come from the constraints, at top level and as a field's
\* type spec, also when the interior is an object holding arrays.
C4_ConstrainedArray ==
    (/\ pc = "done"
     /\ shape.family = "array"
     /\ shape.form = "bracket"
     /\ shape.cons # <<>>) =>
        /\ result.ok
        /\ ArrayNode.type = "array"
        /\ ArrayNode.items = ItemsOfInterior(shape.interior)
        /\ BoundIs(ArrayNode, "minItems", shape.cons, "min")
        /\ BoundIs(ArrayNode, "maxItems", shape.cons, "max")

\* C5: an array node has minItems iff an integer `min=` is in its constraint
\* list and maxItems iff an integer `max=` is; a bound not given is left out,
\* not emitted as null; no other key of the list is on the node.
C5_ItemBounds ==
    (Returned /\ shape.family = "array" /\ ArrayNode.type = "array") =>
        /\ BoundIs(ArrayNode, "minItems", shape.cons, "min")
        /\ BoundIs(ArrayNode, "maxItems", shape.cons, "max")
        /\ DOMAIN ArrayNode \subseteq {"type", "items", "minItems", "maxItems"}

C5_Witness ==
    /\ Returned
    /\ shape.family = "array"
    /\ shape.form = "bracket"
    /\ Len(shape.cons) = 2
    /\ shape.cons[1].key = "foo"
    /\ shape.cons[2].key = "max" /\ shape.cons[2].lit.text = "120"
    /\ ArrayNode.type = "array"
    /\ ArrayNode.maxItems = IntV(120)
    /\ DOMAIN ArrayNode = {"type", "items", "maxItems"}

\* C6: `enum(...)`, `choice(...)`, `select(...)` with one value or more compile
\* to {type: "string", enum: [the values, trimmed, in source order]}; a wrapper
\* that does not match the whole type spec gives the empty list and a leaf
\* without `enum`.
C6_Enum ==
    (pc = "done" /\ shape.family = "leaf") =>
        /\ (shape.spec.kind = "enum" =>
                /\ result.ok
                /\ LeafSchema =
                      [type |-> "string",
                       enum |-> ListV([i \in 1..Len(shape.spec.vals) |->
                                          shape.spec.vals[i].val])])
        /\ (shape.spec.kind = "inexact_enum" =>
                /\ result.ok
                /\ _parse_enum_values(shape.spec.text) = <<>>
                /\ LeafSchema.type = "string"
                /\ ~Has(LeafSchema, "enum"))

C6_Witness ==
    /\ Returned
    /\ shape.family = "leaf"
    /\ shape.spec.kind = "enum"
    /\ shape.spec.w = "choice"
    /\ Len(shape.spec.vals) = 2
    /\ shape.spec.vals[1].text = " b "
    /\ LeafSchema.enum = ListV(<<"b", shape.spec.vals[2].val>>)

\* C7: a union `t1|...|tn`, n >= 2, compiles to {anyOf: [{type: N(t1)}, ...,
\* {type: N(tn)}]}, n entries in source order and no other key; the property
\* keeps its name and its required/optional status.
C7_Union ==
    (pc = "done" /\ shape.family = "leaf" /\ shape.spec.kind = "union") =>
        /\ result.ok
        /\ LeafSchema = [anyOf |-> [i \in 1..Len(shape.spec.ts) |->
                                       [type |-> shape.spec.ts[i].norm]]]
        /\ result.val.properties[1].name = shape.name
        /\ IF shape.opt THEN ~Has(result.val, "required")
           ELSE Has(result.val, "required") /\ result.val.required = <<shape.name>>

C7_Witness ==
    /\ Returned
    /\ shape.family = "leaf"
    /\ shape.spec.kind = "union"
    /\ shape.spec.ts[1].text = "int"
    /\ shape.spec.ts[2].text = "null"
    /\ shape.opt
    /\ LeafSchema = [anyOf |-> <<[type |-> "integer"], [type |-> "null"]>>]

HasDot(text) == \E i \in 1..Len(text) : SubSeq(text, i, i) = "."

\* node[key] is the value of the literal: an int when written without '.', a
\* float otherwise
ValueIs(node, key, lit) ==
    /\ Has(node, key)
    /\ node[key] = lit.val
    /\ node[key].k = IF HasDot(lit.text) THEN "float" ELSE "int"

\* C8: `T(a,b)` with two unnamed numeric arguments is (min,max): minimum and
\* maximum on a numeric T, minLength and maxLength on a string-family T, each
\* value an integer when its literal has no `.` and a float otherwise.
C8_Positional ==
    (/\ pc = "done"
     /\ shape.family = "leaf"
     /\ shape.spec.kind = "pos"
     /\ shape.spec.a \in NumLits
     /\ shape.spec.b \in NumLits) =>
        /\ (shape.spec.t \in NumericTokens =>
                /\ result.ok
                /\ ValueIs(LeafSchema, "minimum", shape.spec.a)
                /\ ValueIs(LeafSchema, "maximum", shape.spec.b))
        /\ (shape.spec.t \in StringTokens =>
                /\ result.ok
                /\ ValueIs(LeafSchema, "minLength", shape.spec.a)
                /\ ValueIs(LeafSchema, "maxLength", shape.spec.b))

C8_Witness ==
    /\ Returned
    /\ shape.family = "leaf"
    /\ shape.spec.kind = "pos"
    /\ shape.spec.t.text = "text"
    /\ shape.spec.a.text = "0"
    /\ shape.spec.b.text = "1.5"
    /\ LeafSchema = [type |-> "string", minLength |-> IntV(0), maxLength |-> FloatV(3, 2)]

\* the output keys of min= and max= on the type token t
LowKey(t) == IF t \in StringTokens THEN "minLength" ELSE "minimum"

HighKey(t) == IF t \in StringTokens THEN "maxLength" ELSE "maximum"

\* the key is on the node with the literal's value when the literal was given,
\* and not on it otherwise
KeyAsGiven(node, key, lit) ==
    IF lit = NoLit THEN ~Has(node, key) ELSE Has(node, key) /\ node[key] = lit.val

\* the conversion the type applies reads the literal
Reads(t, lit) == IF t \in StringTokens THEN lit.isint ELSE lit.isnum

KeyAsRead(node, key, t, lit) ==
    IF Reads(t, lit) THEN Has(node, key) /\ node[key] = lit.val ELSE ~Has(node, key)

SpecialLeaf(t) ==
    IF t.text = "phone" THEN [type |-> "string"]
    ELSE [type |-> "string", format |-> t.format]

\* C10: a special type token compiles, as a field's type and as the item type
\* of `[T]`, to type "string" with the format of the table email->email,
\* url->uri, uri->uri, datetime->date-time, date->date, uuid->uuid; phone has
\* no format.
C10_SpecialTypes ==
    pc = "done" =>
        /\ (/\ shape.family = "leaf"
            /\ shape.spec.kind = "plain"
            /\ shape.spec.t \in SpecialTokens) =>
                result.ok /\ LeafSchema = SpecialLeaf(shape.spec.t)
        /\ (/\ shape.family = "array"
            /\ shape.form = "bracket"
            /\ shape.interior.kind = "simple"
            /\ shape.interior.t \in SpecialTokens) =>
                /\ result.ok
                /\ ArrayNode.type = "array"
                /\ ArrayNode.items = SpecialLeaf(shape.interior.t)

C10_Witness ==
    /\ Returned
    /\ shape.family = "array"
    /\ shape.form = "bracket"
    /\ shape.pos = "field"
    /\ shape.interior.text = "datetime"
    /\ ArrayNode.items = [type |-> "string", format |-> "date-time"]

\* the types of the primitive leaves
PrimitiveTypes == {"string", "integer", "number", "boolean"}

RECURSIVE PrimitiveLeaves(_)
PrimitiveLeaves(node) ==
    IF Has(node, "anyOf") THEN TRUE
    ELSE IF node.type = "object"
    THEN \A i \in 1..Len(node.properties) : PrimitiveLeaves(node.properties[i].schema)
    ELSE IF node.type = "array" THEN PrimitiveLeaves(node.items)
    ELSE node.type \in PrimitiveTypes

\* C11: every non-union leaf of a compiled schema (property values and simple
\* array items, `name:null`, `name:array(null)` and unknown type tokens
\* included) has its type among string, integer, number, boolean.
C11_PrimitiveLeaves == Returned => PrimitiveLeaves(result.val)

RECURSIVE NoMetadata(_)
NoMetadata(node) ==
    /\ ~Has(node, "description")
    /\ ~Has(node, "default")
    /\ (Has(node, "properties") =>
            \A i \in 1..Len(node.properties) : NoMetadata(node.properties[i].schema))
    /\ (Has(node, "items") => NoMetadata(node.items))

\* C12: no node of a schema compiled from a string has a `description` or a
\* `default` key, whatever named arguments the constraint lists hold.
C12_NoMetadata == Returned => NoMetadata(result.val)

Pipes(text) == Cardinality({i \in 1..Len(text) : SubSeq(text, i, i) = "|"})

\* the property was compiled by the given branch from the type spec text
CompiledBy(branch, node, text) ==
    CASE branch = "nested" ->
            /\ ~Has(node, "anyOf")
            /\ node = parse_string_schema(text).val
      [] branch = "union" ->
            /\ DOMAIN node = {"anyOf"}
            /\ Len(node.anyOf) = Pipes(text) + 1
      [] branch = "enum" ->
            /\ ~Has(node, "anyOf")
            /\ node.type = "string"
            /\ Has(node, "enum")
      [] branch = "array" ->
            /\ ~Has(node, "anyOf")
            /\ node.type = "array"
            /\ node.items.type \in PrimitiveTypes
      [] branch = "plain" ->
            /\ ~Has(node, "anyOf")
            /\ node.type \in PrimitiveTypes
            /\ ~Has(node, "enum")

\* C14: a field's type spec is compiled by the first branch that matches in the
\* order nested structure, union, enum family, array(/list(, plain type; a spec
\* that holds `|` and does not start with `[` or `{` is a union, whatever it
\* starts with and whatever constraint list it carries.
C14_DispatchOrder ==
    (pc = "done" /\ shape.family = "leaf" /\ shape.spec.kind = "dispatch") =>
        /\ result.ok
        /\ CompiledBy(FirstMatch(shape.spec.text), LeafSchema, shape.spec.text)

C14_Witness ==
    /\ Returned
    /\ shape.family = "leaf"
    /\ shape.spec.kind = "dispatch"
    /\ shape.spec.text = "choice(a,b)|int"
    /\ LeafSchema = [anyOf |-> <<[type |-> "string"], [type |-> "integer"]>>]

\* C20: a string that starts with `[` and is neither `[...]` nor `[...](...)`
\* is not rejected: it compiles to the empty object, without `required`.
C20_MalformedArray ==
    (pc = "done" /\ shape.family = "malformed") =>
        result = Ok([type |-> "object", properties |-> <<>>])

C20_Witness ==
    /\ Returned
    /\ shape.family = "malformed"
    /\ schema_str = "[string]|null"
    /\ result.val = [type |-> "object", properties |-> <<>>]

\* C13: the field compiler gives the union precedence: a field node with two
\* or more union_types compiles to exactly {anyOf: [...]}, with no enum,
\* format, minimum, maximum, minLength or maxLength key, whatever choices,
\* format hint or constraints the node was built with.
C13_UnionPrecedence ==
    (pc = "done" /\ field_node # NoneV /\ Len(Members(field_node.union_types)) >= 2) =>
        DOMAIN result.val = {"anyOf"}

ReportKeys ==
    {"valid", "errors", "warnings", "parsed_fields", "generated_schema", "features_used"}

\* C15: validate_string_schema never raises and returns a report with the six
\* keys; when parsing raised, valid is false, errors holds the message of the
\* exception and generated_schema is None; otherwise valid is true, errors is
\* empty and generated_schema is what parse_string_schema returns, the empty
\* object of the soft fallback included.
C15_ValidateReport ==
    pc = "done" =>
        /\ DOMAIN result = ReportKeys
        /\ LET parsed == parse_string_schema(schema_str)
           IN  IF parsed.ok
               THEN /\ result.valid
                    /\ result.errors = <<>>
                    /\ result.generated_schema = parsed.val
               ELSE /\ ~result.valid
                    /\ Len(result.errors) = 1
                    /\ result.errors[1].of = parsed.exc
                    /\ result.generated_schema = NoneV
        /\ (shape.family = "malformed" =>
                /\ result.valid
                /\ result.generated_schema = [type |-> "object", properties |-> <<>>])

C15_Witness ==
    /\ pc = "done"
    /\ schema_str = "x:string(foo=bar)"
    /\ ~result.valid
    /\ result.errors = <<[k |-> "message", of |-> "TypeError"]>>
    /\ result.generated_schema = NoneV

\* the type names that take a constraint list
ConstrainableNames ==
    {"string", "str", "text", "int", "integer", "number", "float", "decimal"}
    \cup special_types

\* a constrainable type name, or an array's `]`, immediately followed by a
\* parenthesised argument list
ConstraintWritten(s) ==
    \E opener \in {name \o "(" : name \in ConstrainableNames} \cup {"]("} :
        \E j \in 1..Len(s) :
            /\ j + Len(opener) - 1 <= Len(s)
            /\ SubSeq(s, j, j + Len(opener) - 1) = opener
            /\ \E close \in (j + Len(opener) + 1)..Len(s) :
                   /\ SubSeq(s, close, close) = ")"
                   /\ \A q \in (j + Len(opener))..(close - 1) : SubSeq(s, q, q) # ")"

Holds(s, c) == \E j \in 1..Len(s) : SubSeq(s, j, j) = c

\* C16: a valid report's features_used holds `constraints` whenever the raw
\* string holds a constrainable type name (string, str, text, int, integer,
\* number, float, decimal, the special types) or an array's `]` immediately
\* followed by a parenthesised argument list, and holds `arrays` iff the
\* string holds both `[` and `]`.
C16_ConstraintsFeature ==
    (pc = "done" /\ result.valid) =>
        /\ (ConstraintWritten(schema_str) => "constraints" \in result.features_used)
        /\ ("arrays" \in result.features_used <=>
                (Holds(schema_str, "[") /\ Holds(schema_str, "]")))

\* the value of a depth counter when the loop reads s[i]: the openers less the
\* closers of s[1..i-1]
Running(s, open, close, i) ==
    Cardinality({j \in 1..(i - 1) : SubSeq(s, j, j) = open})
    - Cardinality({j \in 1..(i - 1) : SubSeq(s, j, j) = close})

\* the commas read with the three counters at zero
ZeroDepthCommas(s) ==
    {i \in 1..Len(s) :
        /\ SubSeq(s, i, i) = ","
        /\ Running(s, "[", "]", i) = 0
        /\ Running(s, "{", "}", i) = 0
        /\ Running(s, "(", ")", i) = 0}

\* the text between two consecutive cuts (0 and Len(s) + 1 being the ends)
Between2(s, cuts, lo) ==
    LET hi == IF \E c \in cuts : c > lo
              THEN CHOOSE c \in cuts : c > lo /\ \A d \in cuts : d > lo => c <= d
              ELSE Len(s) + 1
    IN  SubSeq(s, lo + 1, hi - 1)

\* the trimmed segments between the cuts in source order, the empty ones dropped
RECURSIVE SegmentsFrom(_, _, _)
SegmentsFrom(s, cuts, lo) ==
    LET seg == strip(Between2(s, cuts, lo))
        rest == IF \E c \in cuts : c > lo
                THEN SegmentsFrom(s, cuts,
                                  CHOOSE c \in cuts : c > lo /\ \A d \in cuts : d > lo => c <= d)
                ELSE <<>>
    IN  IF seg = "" THEN rest ELSE <<seg>> \o rest

\* C18: the splitter cuts its input at exactly the commas read with the `[]`,
\* `{}` and `()` counters all at zero; the segments are trimmed, non-empty and
\* in source order; unbalanced brackets are not detected, what follows them
\* staying in the last segment.
C18_SplitAtZeroDepth ==
    (pc = "done" /\ frame # NoneV) =>
        /\ result = SegmentsFrom(schema_str, ZeroDepthCommas(schema_str), 0)
        /\ \A k \in 1..Len(result) : result[k] # "" /\ strip(result[k]) = result[k]
        /\ result = _split_field_definitions_with_nesting(schema_str)

C18_Witness ==
    /\ pc = "done"
    /\ frame # NoneV
    /\ schema_str = "a,(,"
    /\ result = <<"a", "(,">>

\* the outcome of every finished call is the outcome of a lone call on its
\* argument
LoneCallOutcomes ==
    \A t \in Threads :
        /\ frames[t].pc = "done" =>
               frames[t].result = parse_string_schema(frames[t].argument)
        /\ frames[t].pc = "idle" => frames[t] = Idle

\* a step changes the frame of one call only
OneFrameChanged ==
    \A t \in Threads :
        frames'[t] # frames[t] => \A u \in Threads \ {t} : frames'[u] = frames[u]

\* C17: parse calls are independent: whatever the other threads do, a call
\* that has returned or raised has the outcome a lone call on its argument
\* has, and every step of a call leaves the frames of the other calls alone.
C17_IndependentCalls == [](LoneCallOutcomes) /\ [][OneFrameChanged]_vars

C17_Witness ==
    /\ frames # NoneV
    /\ frames[1].pc = "done"
    /\ frames[2].pc = "done"
    /\ frames[1].argument = "x:string(foo=bar)"
    /\ ~frames[1].result.ok
    /\ frames[2].argument = " [int](max=3) "
    /\ frames[2].result =
           Ok([type |-> "array", items |-> [type |-> "integer"], maxItems |-> IntV(3)])

\* the type tokens of the primitive and the special types
FlatTokens == StringTokens \cup NumericTokens \cup BooleanTokens \cup SpecialTokens

\* a field of a primitive or special type, with or without min/max
\* constraints, or an enum
FlatSpec(spec) ==
    \/ spec.kind \in {"plain", "pos", "named"} /\ spec.t \in FlatTokens
    \/ spec.kind = "enum"

\* C19: on a flat object (fields of primitive types, special types, enums,
\* optional markers, min/max constraints) the round trip is the identity:
\* with J = string_to_json_schema(s),
\* string_to_json_schema(json_schema_to_string(J)) = J.
C19_RoundTrip ==
    (pc = "done" /\ frame # NoneV /\ "json_schema" \in DOMAIN frame
        /\ shape.family = "leaf" /\ FlatSpec(shape.spec)
        /\ frame.json_schema # NoneV) =>
        result = Ok(frame.json_schema)


\* the leaf a simple type token stands for
SimpleItem(t) ==
    IF t.format = "" THEN [type |-> t.norm] ELSE [type |-> t.norm, format |-> t.format]

PosReads(lit) == lit.isnum

\* the one field is required exactly when it was written without `?`
RequiredAsWritten(node, name, opt) ==
    IF opt THEN ~Has(node, "required") ELSE Has(node, "required") /\ node.required = <<name>>

\* a constraint value of the shape is one its conversion rejects
SomeValueRejected(spec) ==
    \/ spec.kind = "named" /\ \E lit \in {spec.min, spec.max} :
                                  lit # NoLit /\ ~Reads(spec.t, lit)
    \/ spec.kind = "pos" /\ \E lit \in {spec.a, spec.b} : ~PosReads(lit)

\* C23 as stated: a value that cannot be coerced is dropped, the parse does not
\* fail and the other constraint of the field is kept, in the named form and
\* in the positional form alike; the required flag is as written.
C23_DroppedAlone ==
    (/\ pc = "done"
     /\ shape.family = "leaf"
     /\ shape.spec.kind \in {"named", "pos"}
     /\ shape.spec.t \in StringTokens \cup NumericTokens
     /\ SomeValueRejected(shape.spec)) =>
        /\ result.ok
        /\ RequiredAsWritten(result.val, "id", shape.opt)
        /\ shape.spec.kind = "named" =>
              /\ KeyAsRead(LeafSchema, LowKey(shape.spec.t), shape.spec.t, shape.spec.min)
              /\ KeyAsRead(LeafSchema, HighKey(shape.spec.t), shape.spec.t, shape.spec.max)
        /\ shape.spec.kind = "pos" =>
              /\ IF PosReads(shape.spec.a)
                 THEN ValueIs(LeafSchema, LowKey(shape.spec.t), shape.spec.a)
                 ELSE ~Has(LeafSchema, LowKey(shape.spec.t))
              /\ IF PosReads(shape.spec.b)
                 THEN ValueIs(LeafSchema, HighKey(shape.spec.t), shape.spec.b)
                 ELSE ~Has(LeafSchema, HighKey(shape.spec.t))

\* C23: in the named form a value that cannot be coerced is dropped with its
\* key, the parse does not fail and the other constraint of the field is kept
\* (`id:int(min=abc,max=120)` gives {type: integer, maximum: 120}); in the
\* positional form `T(a,b)` one value that cannot be coerced drops both; on an
\* array, `min=`/`max=` values int() rejects are dropped one by one.  A field
\* whose every constraint is dropped is the bare leaf of its type, and the
\* required flag is as written in every case.
C23_InvalidDropped ==
    /\ (/\ pc = "done"
        /\ shape.family = "leaf"
        /\ shape.spec.kind \in {"named", "pos"}
        /\ shape.spec.t \in StringTokens \cup NumericTokens
        /\ SomeValueRejected(shape.spec)) =>
           /\ result.ok
           /\ RequiredAsWritten(result.val, "id", shape.opt)
           /\ LeafSchema.type = shape.spec.t.norm
           /\ DOMAIN LeafSchema \subseteq
                 {"type", LowKey(shape.spec.t), HighKey(shape.spec.t)}
           /\ shape.spec.kind = "named" =>
                 /\ KeyAsRead(LeafSchema, LowKey(shape.spec.t), shape.spec.t, shape.spec.min)
                 /\ KeyAsRead(LeafSchema, HighKey(shape.spec.t), shape.spec.t, shape.spec.max)
           /\ shape.spec.kind = "pos" => DOMAIN LeafSchema = {"type"}
    /\ (/\ pc = "done"
        /\ shape.family = "array"
        /\ shape.interior.text = "int"
        /\ \E i \in 1..Len(shape.cons) : ~shape.cons[i].lit.isint) =>
           /\ result.ok
           /\ ArrayNode.type = "array"
           /\ BoundIs(ArrayNode, "minItems", shape.cons, "min")
           /\ BoundIs(ArrayNode, "maxItems", shape.cons, "max")
           /\ shape.pos = "field" => RequiredAsWritten(result.val, "tags", shape.opt)

C23_Witness ==
    /\ Returned
    /\ schema_str = "id:int(min=abc,max=120)"
    /\ LeafSchema = [type |-> "integer", maximum |-> IntV(120)]

\* C22: comments and line breaks do not change the result.  A schema written
\* with full-line `#` comments, inline `# ...` comments (commas, brackets and
\* braces in them included) or one field per line compiles to what its
\* comment-free one-line form compiles to, also when it is wrapped in `{...}`
\* or `[...]` and the comment stands before or after the wrapper.
C22_CommentsIgnored ==
    (pc = "done" /\ shape.family = "commented") =>
        result = parse_string_schema(shape.base)

\* the keys of a value range are on a node of type integer or number only, the
\* keys of a length range on a node of type string only
RECURSIVE KeysByType(_)
KeysByType(node) ==
    /\ (Has(node, "minimum") \/ Has(node, "maximum")) =>
          Has(node, "type") /\ node.type \in {"integer", "number"}
    /\ (Has(node, "minLength") \/ Has(node, "maxLength")) =>
          Has(node, "type") /\ node.type = "string"
    /\ Has(node, "properties") =>
          \A i \in 1..Len(node.properties) : KeysByType(node.properties[i].schema)
    /\ Has(node, "items") => KeysByType(node.items)

\* C24: in every compiled leaf minimum/maximum appear only when `type` is
\* integer or number and minLength/maxLength only when `type` is string; a
\* boolean leaf, and a special-type leaf given `min=`/`max=` or a positional
\* pair, carries none of the four keys.
C24_KeysByType ==
    Returned =>
        /\ KeysByType(result.val)
        /\ (/\ shape.family = "leaf"
            /\ shape.spec.kind \in {"named", "pos"}
            /\ shape.spec.t \in BooleanTokens \cup SpecialTokens) =>
               DOMAIN LeafSchema \cap {"minimum", "maximum", "minLength", "maxLength"} = {}

\* the bounds of the constraint list are integers under min= and max=
IntegerBounds(cons) ==
    \A i \in 1..Len(cons) : cons[i].key \in {"min", "max"} /\ cons[i].lit.isint

\* the field written with the bracket syntax in place of array(...) or list(...)
AsBracketField(sh) ==
    "tags:" \o RenderArray([sh EXCEPT !.form = "bracket"]) \o Mark(sh.opt)

\* C27: the alternative array syntax is equivalent to the bracket syntax.  For
\* every simple type token T, the special types included, and integer bounds,
\* `tags:array(T,min=a,max=b)` and `tags:list(T,min=a,max=b)` compile to what
\* `tags:[T](min=a,max=b)` compiles to: the same property schema, the `format`
\* of the items included, and the same required status.
C27_AlternativeSyntax ==
    (/\ pc = "done"
     /\ shape.family = "array"
     /\ shape.form \in {"array", "list"}
     /\ IntegerBounds(shape.cons)) =>
        result = parse_string_schema(AsBracketField(shape))

\* C29: type tokens are case-insensitive everywhere.  A field `x:T`,
\* `x:T(min=1,max=5)`, `x:T(1,5)` and an array `[T]`, `x:[T]?` whose token T is
\* written in another letter case (`EMAIL`, `Email`) compile to what they
\* compile to with the token in lower case, `format` and length or range
\* constraints included.
C29_CaseInsensitive ==
    (pc = "done" /\ shape.family = "cased") =>
        result = parse_string_schema(RenderCased(shape.t.text, shape.form))

\* the path of a property under a prefix
PathOf(prefix, name) == IF prefix = "" THEN name ELSE prefix \o "." \o name

RECURSIVE Reachable(_, _)
RECURSIVE ReachableFrom(_, _, _)

\* the properties reachable from the i-th property of an object on, in the
\* order of the walk: each property, then what is reachable below it
ReachableFrom(node, prefix, i) ==
    IF i > Len(node.properties) THEN <<>>
    ELSE <<[path |-> PathOf(prefix, node.properties[i].name),
            schema |-> node.properties[i].schema,
            required |-> Has(node, "required")
                         /\ \E j \in 1..Len(node.required) :
                                node.required[j] = node.properties[i].name]>>
         \o Reachable(node.properties[i].schema, PathOf(prefix, node.properties[i].name))
         \o ReachableFrom(node, prefix, i + 1)

\* the properties reachable in a node through nested objects and through the
\* object items of arrays
Reachable(node, prefix) ==
    IF Has(node, "type") /\ node.type = "object" /\ Has(node, "properties")
    THEN ReachableFrom(node, prefix, 1)
    ELSE IF /\ Has(node, "type") /\ node.type = "array" /\ Has(node, "items")
            /\ Has(node.items, "type") /\ node.items.type = "object"
    THEN Reachable(node.items, prefix \o "[]")
    ELSE <<>>

\* the entry describes the property: its type, `union` for a union, and
\* its membership in the required list of its parent
Describes(info, property) ==
    /\ info.required = property.required
    /\ info.type = IF Has(property.schema, "anyOf") THEN "union" ELSE property.schema.type

\* C25 as stated: parsed_fields has exactly one entry per reachable property,
\* under the property's dotted path, and the entry describes that property.
C25_OneEntryPerProperty ==
    (pc = "done" /\ result.valid) =>
        LET reached == Reachable(result.generated_schema, "")
        IN /\ Len(result.parsed_fields) = Len(reached)
           /\ \A k \in 1..Len(reached) :
                 \E i \in 1..Len(result.parsed_fields) :
                    /\ result.parsed_fields[i].name = reached[k].path
                    /\ Describes(result.parsed_fields[i].info, reached[k])

\* C25: parsed_fields has exactly one entry per dotted path of a reachable
\* property (`a.b` below object a, `a[].b` below the object items of array a,
\* `[].b` below a top-level array of objects).  The entry describes the
\* property with that path: required as in its own parent's list, type
\* `union` for a union; where two properties have the same path, which takes
\* a field name holding `.` or `[]`, it describes the one the walk meets last.
C25_OneEntryPerPath ==
    (pc = "done" /\ result.valid) =>
        LET reached == Reachable(result.generated_schema, "")
            fields == result.parsed_fields
        IN /\ \A i, j \in 1..Len(fields) : fields[i].name = fields[j].name => i = j
           /\ {fields[i].name : i \in 1..Len(fields)}
                 = {reached[k].path : k \in 1..Len(reached)}
           /\ \A i \in 1..Len(fields) :
                 LET last == Max({k \in 1..Len(reached) : reached[k].path = fields[i].name})
                 IN Describes(fields[i].info, reached[last])

C25_Witness ==
    /\ pc = "done"
    /\ schema_str = "a:[{b:int|null}], a[].b:string"
    /\ result.valid
    /\ PropertyNames([properties |-> result.parsed_fields]) = <<"a", "a[].b">>
    /\ result.parsed_fields[2].info.type = "string"

\* the characters of s other than commas and white space
Solid(s) ==
    Cardinality({j \in 1..Len(s) : SubSeq(s, j, j) \notin {",", " ", "\n", "\t", "\r"}})

\* the opening brackets and braces of s
Openers(s) == Cardinality({j \in 1..Len(s) : SubSeq(s, j, j) \in {"[", "{"}})

\* how many brackets and braces are open after the first j characters of s
OpenAfter(s, j) ==
    Openers(SubSeq(s, 1, j))
    - Cardinality({k \in 1..j : SubSeq(s, k, k) \in {"]", "}"}})

\* the bracket/brace nesting depth of s
NestingDepth(s) == Max({OpenAfter(s, j) : j \in 0..Len(s)})

\* C26 as stated: every recursive call of the structure parser is made on a
\* strictly shorter string than its caller's, and the recursion depth never
\* exceeds the bracket/brace nesting depth of the input plus one.
C26_ShorterAndShallow ==
    /\ \A d \in 2..Len(frames) :
          Len(frames[d].schema_str) < Len(frames[d - 1].schema_str)
    /\ Len(frames) <= NestingDepth(schema_str) + 1

\* every call in progress is on a string with fewer characters other than
\* commas and white space than its caller's, and there are at most as many
\* calls in progress as the input has opening brackets and braces, plus one
CallsDecrease ==
    /\ \A d \in 2..Len(frames) :
          Solid(frames[d].schema_str) < Solid(frames[d - 1].schema_str)
    /\ Len(frames) <= Openers(schema_str) + 1

RECURSIVE StepsOfLoop(_, _, _)

\* the steps the loop over field_parts takes from the i-th part to its return:
\* one for a plain field, for a nested one the call and the steps of the
\* called loop, and the return (counted to at most `fuel` calls deep)
StepsOfLoop(field_parts, i, fuel) ==
    IF i > Len(field_parts) THEN 1
    ELSE IF fuel > 0 /\ IsNested(Unmarked(field_parts[i]))
    THEN 1 + StepsOfLoop(Frame(FieldDef(Unmarked(field_parts[i]))).field_parts, 1, fuel - 1)
           + StepsOfLoop(field_parts, i + 1, fuel)
    ELSE 1 + StepsOfLoop(field_parts, i + 1, fuel)

RECURSIVE StepsOfCallers(_, _)

\* the steps left to the calls below the top of the stack, each waiting in
\* its i-th field
StepsOfCallers(stack, d) ==
    IF d >= Len(stack) THEN 0
    ELSE StepsOfLoop(stack[d].field_parts, stack[d].i + 1, MaxDepth)
         + StepsOfCallers(stack, d + 1)

\* the steps the parse has left if no field raises
StepsLeft(stack) ==
    IF stack = <<>> THEN 0
    ELSE StepsOfCallers(stack, 1)
         + StepsOfLoop(stack[Len(stack)].field_parts, stack[Len(stack)].i, MaxDepth)

\* C26: parse_string_schema terminates on every finite input.  Every recursive
\* call of the structure parser is made on a string with strictly fewer
\* characters other than commas and white space than its caller's (the string
\* itself can be longer: the lines of a schema are joined with `, `), so the
\* recursion depth never exceeds the number of opening brackets and braces of
\* the input plus one; every step of the parse lowers the number of steps it
\* has left, which is zero exactly when it has returned or raised.
C26_Terminates ==
    /\ [](CallsDecrease /\ (pc = "parsing" <=> StepsLeft(frames) > 0))
    /\ [][StepsLeft(frames') < StepsLeft(frames)]_vars

C26_Witness ==
    /\ pc = "parsing"
    /\ schema_str = "p:{\nq:{\nr\ns\n}\n}"
    /\ Len(frames) = 3
    /\ Len(frames[2].schema_str) > Len(frames[1].schema_str)
    /\ Solid(frames[2].schema_str) < Solid(frames[1].schema_str)

\* C28: the two field compilers agree.  For every SimpleField, whatever its
\* type, description, default, choices, format hint, union types and numeric,
\* length and item constraints, builders._simple_field_to_json_schema and the
\* parser's _simple_field_to_json_schema return the same property schema, so
\* simple_schema(fields) is the object the parser's object compiler gives for
\* the same fields.
C28_CompilersAgree ==
    (pc = "done" /\ \A i \in 1..Len(frame) : frame[i].def.k = "obj") =>
        /\ result = frames
        /\ \A i \in 1..Len(frame) :
              builders_simple_field_to_json_schema(frame[i].def.v)
                 = _simple_field_to_json_schema(frame[i].def.v)

\* no OpenAPI-only keyword at the top level, in a property or in the items
RECURSIVE KeywordFree(_)
KeywordFree(json_schema) ==
    /\ DOMAIN json_schema \cap openapi_only_keywords = {}
    /\ Has(json_schema, "properties") =>
          \A i \in 1..Len(json_schema.properties) :
              KeywordFree(json_schema.properties[i].schema)
    /\ Has(json_schema, "items") => KeywordFree(json_schema.items)

\* C30: openapi_to_json_schema leaves its argument unchanged.  After the call
\* the input schema, its nested `properties` and `items` sub-schemas
\* included, is what it was before, and the returned schema has the
\* OpenAPI-only keywords removed at the top level and in every nested
\* property and item schema.
C30_ArgumentUnchanged ==
    pc = "done" => frame = shape /\ KeywordFree(result)

\* the half of C30 that the code keeps: the returned schema
C30_ReturnedClean ==
    pc = "done" => KeywordFree(result) /\ result = openapi_to_json_schema(shape)
====
